---- MODULE Spec2Model ----
(***************************************************************************)
(* Name resolution of one crate (ra_hir::nameres::collector): the          *)
(* DefCollector fixed-point loop over unresolved imports and unexpanded    *)
(* macros, the ModCollector walk over raw items, glob-import propagation,  *)
(* and the location interner the collector allocates ids from.             *)
(*                                                                         *)
(* Encoding conventions                                                    *)
(*   Option<T>        a sequence of length <= 1: <<>> is None, <<x>> Some  *)
(*   arena ids        1-based indices into the arena's sequence            *)
(*   FxHashMap<K,V>   a function whose DOMAIN is the set of present keys   *)
(*   HirFileId        [macro |-> BOOLEAN, id |-> FileId or MacroCallId]    *)
(***************************************************************************)
EXTENDS Integers, Sequences, FiniteSets, TLC

VARIABLES
    files,      \* input: the source root, a sequence of [path, items]
    deps,       \* input: krate.dependencies(db), a sequence of [name, krate]
    def_map,    \* CrateDefMap being built
    col,        \* DefCollector working state (queues, glob edges, macro scope)
    interner,   \* HirInterner: one location interner per item kind
    stack,      \* active ModCollector::collect frames (the call stack)
    pc,         \* position of the pass
    loop,       \* locals of DefCollector::collect and of the two passes
    hist,       \* history: what the pass has done so far
    source_file,\* db.parse(file_id): the syntax tree of each file
    file_items  \* db.file_items(file_id): the SourceFileItems of each file

vars == <<files, deps, def_map, col, interner, stack, pc, loop, hist, source_file, file_items>>

\* the syntax-level state, which name resolution and interning leave alone
syntax_vars == <<source_file, file_items>>

(***************************************************************************)
(* Bounds and program constants                                            *)
(***************************************************************************)
\* the round cap of the main loop
RoundCap == 1000
\* the recursion depth update_recursive refuses to exceed
GlobDepthLimit == 100
\* number of nested ModCollector::collect frames the call stack can hold
StackLimit == 7
\* number of items in the two inline modules of an input package
MaxItems == 3
\* longest item list of the root of an input package that uses macros
MaxMacroItems == 3

None == <<>>
Some(x) == <<x>>
IsSome(o) == Len(o) = 1
IsNone(o) == Len(o) = 0
Unwrap(o) == o[1]
\* Option::or
OptOr(a, b) == IF IsSome(a) THEN a ELSE b

Krate == "this"
DepKrate == "dep"
Dep2Krate == "dep2"
Dep3Krate == "dep3"
Root == 1
\* crate_graph.crate_root(..): the root file is the first file of the source root
RootFile == 1

(***************************************************************************)
(* ModuleDef, PerNs, Resolution                                            *)
(***************************************************************************)
ModuleOf(k, m) == [kind |-> "Module", krate |-> k, id |-> m, idx |-> 0]
ItemDef(kind, id) == [kind |-> kind, krate |-> "-", id |-> id, idx |-> 0]
VariantOf(e, i) == [kind |-> "EnumVariant", krate |-> "-", id |-> e.id, idx |-> i]

PerNsNone == [types |-> None, values |-> None]
PerNsTypes(t) == [types |-> Some(t), values |-> None]
PerNsValues(v) == [types |-> None, values |-> Some(v)]
PerNsBoth(t, v) == [types |-> Some(t), values |-> Some(v)]
PerNsIsNone(p) == IsNone(p.types) /\ IsNone(p.values)
PerNsOr(p, q) == [types |-> OptOr(p.types, q.types), values |-> OptOr(p.values, q.values)]

DefaultResolution == [def |-> PerNsNone, import |-> None]

\* FxHashMap::insert
Insert(map, k, v) == [x \in (DOMAIN map) \cup {k} |-> IF x = k THEN v ELSE map[x]]
EmptyMap == [x \in {} |-> None]

RECURSIVE SetToSeq(_)
\* the entries of a hash map in its (fixed) iteration order
SetToSeq(S) ==
    IF S = {} THEN <<>>
    ELSE LET x == CHOOSE y \in S : TRUE IN <<x>> \o SetToSeq(S \ {x})

(***************************************************************************)
(* Location interner (ra_db::LocationInterner, one per kind in            *)
(* HirInterner): loc2id returns the existing id of a location or          *)
(* allocates the next one.                                                 *)
(***************************************************************************)
ModuleRef(k, m) == [krate |-> k, module_id |-> m]
RealFile(f) == [macro |-> FALSE, id |-> f]
MacroFile(call) == [macro |-> TRUE, id |-> call]
\* a source item id that names the first pseudo-file instead of the file the
\* item is in
SourceItemIdInExpansion(file_id, item_id) ==
    [file_id |-> [macro |-> TRUE, id |-> 1], item_id |-> item_id]

SourceItemId(file_id, item_id) == [file_id |-> file_id, item_id |-> item_id]
\* a location that compares equal to every location with the same raw id
ItemLocWithoutModule(module, raw) == [module |-> [krate |-> "-", module_id |-> 0], raw |-> raw]

\* ItemLoc / MacroCallLoc: equal when module and source item id are equal
ItemLoc(module, raw) == [module |-> module, raw |-> raw]

Loc2Id(locs, loc) ==
    IF \E i \in 1..Len(locs) : locs[i] = loc
    THEN CHOOSE i \in 1..Len(locs) : locs[i] = loc
    ELSE Len(locs) + 1

InternLoc(locs, loc) ==
    IF \E i \in 1..Len(locs) : locs[i] = loc THEN locs ELSE Append(locs, loc)

\* LocationInterner::id2loc
Id2Loc(locs, id) == locs[id]

\* interner field of each raw::DefKind (AstItemDef::interner)
InternerField(kind) ==
    CASE kind = "Function" -> "fns"
      [] kind = "Struct" -> "structs"
      [] kind = "Enum" -> "enums"
      [] kind = "Const" -> "consts"
      [] kind = "Static" -> "statics"
      [] kind = "Trait" -> "traits"
      [] kind = "TypeAlias" -> "types"

\* AstItemDef::from_source_item_id_unchecked: the id for (ctx.module, ctx.file_id, item_id)
FromSourceItemId(int, kind, module, file_id, item_id) ==
    Loc2Id(int[InternerField(kind)], ItemLoc(module, SourceItemId(file_id, item_id)))

\* an interner that allocates an id on every call, seen before or not
InternItemAlways(int, kind, module, file_id, item_id) ==
    [int EXCEPT ![InternerField(kind)] =
        Append(@, ItemLoc(module, SourceItemId(file_id, item_id)))]

\* the interner after from_source_item_id_unchecked
InternItem(int, kind, module, file_id, item_id) ==
    [int EXCEPT ![InternerField(kind)] =
        InternLoc(@, ItemLoc(module, SourceItemId(file_id, item_id)))]

\* MacroCallLoc::id
MacroCallIdOf(int, module, source_item_id) ==
    Loc2Id(int.macros, ItemLoc(module, source_item_id))

InternMacroCall(int, module, source_item_id) ==
    [int EXCEPT !.macros = InternLoc(@, ItemLoc(module, source_item_id))]

\* MacroCallId::loc
MacroCallLocOf(int, macro_call_id) == Id2Loc(int.macros, macro_call_id)

\* the location behind the id of an item of `kind` (AstItemDef::source, ::module)
ItemLocOf(int, kind, id) == Id2Loc(int[InternerField(kind)], id)

RECURSIVE OriginalFile(_, _)
\* HirFileId::original_file
OriginalFile(int, file_id) ==
    IF ~file_id.macro THEN file_id.id
    ELSE OriginalFile(int, int.macros[file_id.id].raw.file_id)

(***************************************************************************)
(* Raw items (nameres::raw), as the collector reads them                   *)
(***************************************************************************)
PathOf(kind, segments) == [kind |-> kind, segments |-> segments]
\* Path::as_ident
AsIdent(path) ==
    IF path.kind = "Plain" /\ Len(path.segments) = 1 THEN Some(path.segments[1]) ELSE None
\* is_macro_rules
IsMacroRules(path) == AsIdent(path) = Some("macro_rules")

ImportData(path, alias, is_glob, is_prelude, is_extern_crate) ==
    [path |-> path, alias |-> alias, is_glob |-> is_glob,
     is_prelude |-> is_prelude, is_extern_crate |-> is_extern_crate]

\* RawItem::Import, with the ImportId it has in its file and its ImportData
Import(id, data) == [k |-> "Import", id |-> id, data |-> data]
Use(id, path) == Import(id, ImportData(path, None, FALSE, FALSE, FALSE))
UseAs(id, path, alias) == Import(id, ImportData(path, Some(alias), FALSE, FALSE, FALSE))
UseGlob(id, path) == Import(id, ImportData(path, None, TRUE, FALSE, FALSE))
PreludeGlob(id, path) == Import(id, ImportData(path, None, TRUE, TRUE, FALSE))
ExternCrate(id, name, alias) ==
    Import(id, ImportData(PathOf("Plain", <<name>>), alias, FALSE, FALSE, TRUE))
\* RawItem::Def; variants is what Enum::variants reads from the enum's syntax
Def(sid, name, kind) == [k |-> "Def", sid |-> sid, name |-> name, kind |-> kind, variants |-> <<>>]
EnumDef(sid, name, variants) ==
    [k |-> "Def", sid |-> sid, name |-> name, kind |-> "Enum", variants |-> variants]
\* RawItem::Module: ModuleData::Definition (inline) and ModuleData::Declaration
InlineMod(sid, name, items) ==
    [k |-> "Module", decl |-> FALSE, sid |-> sid, name |-> name, items |-> items]
DeclMod(sid, name) == [k |-> "Module", decl |-> TRUE, sid |-> sid, name |-> name, items |-> <<>>]
\* RawItem::Macro
MacroCall(sid, path, arg) ==
    [k |-> "Macro", sid |-> sid, path |-> path, name |-> None, arg |-> arg, export |-> FALSE]
MacroRulesDef(sid, name, rules, export) ==
    [k |-> "Macro", sid |-> sid, path |-> PathOf("Plain", <<"macro_rules">>),
     name |-> Some(name), arg |-> rules, export |-> export]

(***************************************************************************)
(* Declarative macros (mbe): the rules of a macro are named by the         *)
(* template they expand to; an invocation whose argument is "nomatch"      *)
(* matches no rule.                                                        *)
(***************************************************************************)
\* mbe::MacroRules::parse
ParseRules(tt) == IF tt = "bad_rules" THEN None ELSE Some(tt)

\* the item list of an expansion (token_tree_to_ast_item_list, RawItems::from_source_file)
Template(rules) ==
    CASE rules = "t_fn_g" -> <<Def(1, "g", "Function")>>
      [] rules = "t_fn_h" -> <<Def(1, "h", "Function")>>
      [] rules = "t_rec" -> <<MacroCall(1, PathOf("Plain", <<"dep", "rec">>), "ok")>>
      [] rules = "t_extern" -> <<ExternCrate(1, "dep", Some("x"))>>
      [] rules = "t_self" -> <<MacroCall(1, PathOf("Plain", <<"foo">>), "ok")>>
      [] rules = "t_make" ->
            <<MacroCall(1, PathOf("Plain", <<"dep", "make_item">>), "ok")>>
      [] OTHER -> <<>>

\* MacroRules::expand
Expand(rules, arg) == IF arg = "nomatch" THEN None ELSE Some(Template(rules))

(***************************************************************************)
(* Finished definition maps of the dependencies (db.crate_def_map)         *)
(***************************************************************************)
Res(def) == [def |-> def, import |-> None]

DepMap ==
    [krate |-> DepKrate, root |-> Root,
     prelude |-> Some(ModuleRef(DepKrate, 2)),
     modules |-> <<
        [scope |-> ("df" :> Res(PerNsValues(ItemDef("Function", 1)))
                 @@ "DS" :> Res(PerNsBoth(ItemDef("Struct", 1), ItemDef("Struct", 1)))
                 @@ "pre" :> Res(PerNsTypes(ModuleOf(DepKrate, 2))))],
        [scope |-> ("pf" :> Res(PerNsValues(ItemDef("Function", 2))))] >>,
     macros |-> <<"t_fn_g", "t_rec", "t_extern", "t_make">>,
     public_macros |-> ("make_item" :> 1 @@ "rec" :> 2 @@ "mk_extern" :> 3 @@ "mk_make" :> 4)]

Dep2Map ==
    [krate |-> Dep2Krate, root |-> Root,
     prelude |-> Some(ModuleRef(Dep2Krate, 1)),
     modules |-> <<
        [scope |-> ("df" :> Res(PerNsTypes(ItemDef("Trait", 1))))] >>,
     macros |-> <<>>,
     public_macros |-> EmptyMap]

\* a dependency without a prelude
Dep3Map ==
    [krate |-> Dep3Krate, root |-> Root,
     prelude |-> None,
     modules |-> << [scope |-> EmptyMap] >>,
     macros |-> <<>>,
     public_macros |-> EmptyMap]

CrateDefMapOf(krate) ==
    CASE krate = DepKrate -> DepMap
      [] krate = Dep2Krate -> Dep2Map
      [] OTHER -> Dep3Map

\* the ids the dependencies' items were interned under before this pass
DepFile == 101
Dep2File == 102
InitInterner ==
    [macros |-> <<>>,
     fns |-> <<ItemLoc(ModuleRef(DepKrate, 1), SourceItemId(RealFile(DepFile), 1)),
               ItemLoc(ModuleRef(DepKrate, 2), SourceItemId(RealFile(DepFile), 3))>>,
     structs |-> <<ItemLoc(ModuleRef(DepKrate, 1), SourceItemId(RealFile(DepFile), 2))>>,
     enums |-> <<>>, consts |-> <<>>, statics |-> <<>>,
     traits |-> <<ItemLoc(ModuleRef(Dep2Krate, 1), SourceItemId(RealFile(Dep2File), 1))>>,
     types |-> <<>>]

(***************************************************************************)
(* CrateDefMap: construction and lookups                                   *)
(***************************************************************************)
\* ModuleData::default()
DefaultModuleData ==
    [parent |-> None, declaration |-> None, definition |-> None,
     children |-> EmptyMap, scope |-> EmptyMap]

\* a loop body that adopts the prelude of every dependency that has one, so
\* that the last one stays
SeedDepLastPrelude(dm, dep, map) ==
    [dm EXCEPT !.extern_prelude = Insert(@, dep.name, ModuleOf(dep.krate, map.root)),
               !.prelude = IF IsSome(map.prelude) THEN map.prelude ELSE @]

\* collect_defs, the body of the loop over the dependencies, for one dependency
SeedDep(dm, dep, map) ==
    [dm EXCEPT !.extern_prelude = Insert(@, dep.name, ModuleOf(dep.krate, map.root)),
               !.prelude = IF IsNone(@) /\ IsSome(map.prelude) THEN map.prelude ELSE @]

RECURSIVE SeedDeps(_, _)
\* collect_defs: populate the extern prelude and look for the prelude
SeedDeps(dm, ds) ==
    IF ds = <<>> THEN dm
    ELSE SeedDeps(SeedDep(dm, Head(ds), CrateDefMapOf(Head(ds).krate)), Tail(ds))

EmptyDefMap ==
    [krate |-> Krate, root |-> Root, modules |-> <<DefaultModuleData>>,
     extern_prelude |-> EmptyMap, prelude |-> None,
     macros |-> <<>>, public_macros |-> EmptyMap,
     macro_resolutions |-> EmptyMap, problems |-> <<>>]

\* the scope of a module of this crate or of a dependency
ScopeOf(dm, m) ==
    IF m.krate = dm.krate THEN dm.modules[m.module_id].scope
    ELSE CrateDefMapOf(m.krate).modules[m.module_id].scope

ScopeDef(scope, name) == IF name \in DOMAIN scope THEN scope[name].def ELSE PerNsNone

\* CrateDefMap::resolve_name_in_extern_prelude
ResolveNameInExternPrelude(dm, name) ==
    IF name \in DOMAIN dm.extern_prelude
    THEN PerNsTypes(dm.extern_prelude[name]) ELSE PerNsNone

\* CrateDefMap::resolve_name_in_module: scope, then extern prelude, then prelude
ResolveNameInModule(dm, module_id, name) ==
    LET from_scope == ScopeDef(dm.modules[module_id].scope, name)
        from_extern_prelude == ResolveNameInExternPrelude(dm, name)
        from_prelude == IF IsSome(dm.prelude)
                        THEN ScopeDef(ScopeOf(dm, Unwrap(dm.prelude)), name)
                        ELSE PerNsNone
    IN PerNsOr(PerNsOr(from_scope, from_extern_prelude), from_prelude)

RECURSIVE FlattenItems(_)
\* every raw item of an item list, nested inline modules included
FlattenItems(items) ==
    IF items = <<>> THEN <<>>
    ELSE LET it == Head(items)
         IN <<it>> \o (IF it.k = "Module" THEN FlattenItems(it.items) ELSE <<>>)
                  \o FlattenItems(Tail(items))

\* the enum definition with slot item_id among `items`, if any
EnumItem(items, item_id) ==
    IF \E i \in 1..Len(items) :
          items[i].k = "Def" /\ items[i].kind = "Enum" /\ items[i].sid = item_id
    THEN Some(items[CHOOSE i \in 1..Len(items) :
                 items[i].k = "Def" /\ items[i].kind = "Enum" /\ items[i].sid = item_id])
    ELSE None

VariantsOf(item) == IF IsSome(item) THEN Unwrap(item).variants ELSE <<>>

\* the variants in the syntax of the enum at loc (None for a nameless one)
VariantsAt(fs, loc) ==
    IF loc.raw.file_id.macro \/ loc.raw.file_id.id \notin 1..Len(fs) THEN <<>>
    ELSE VariantsOf(EnumItem(FlattenItems(fs[loc.raw.file_id.id].items), loc.raw.item_id))

\* Enum::variants
EnumVariants(fs, int, e) == VariantsAt(fs, int.enums[e.id])

RECURSIVE ResolveInDep(_, _, _)
\* segment i resolved in the definition c of a dependency
SegmentInDep(c, segments, i) ==
    IF c.kind = "Module"
    THEN ResolveInDep(ScopeDef(CrateDefMapOf(c.krate).modules[c.id].scope, segments[i]),
                      segments, i + 1)
    ELSE PerNsTypes(c)

\* CrateDefMap::resolve_path in a dependency's finished map, from segment i on
ResolveInDep(cur, segments, i) ==
    IF i > Len(segments) THEN cur
    ELSE IF IsNone(cur.types) THEN PerNsNone
    ELSE SegmentInDep(Unwrap(cur.types), segments, i)

\* the first variant of enum e named `name`, if any (Enum::variant)
VariantNamed(e, variants, name) ==
    IF \E j \in 1..Len(variants) : variants[j] = Some(name)
    THEN Some(VariantOf(e, CHOOSE j \in 1..Len(variants) :
                              /\ variants[j] = Some(name)
                              /\ \A h \in 1..(j - 1) : variants[h] # Some(name)))
    ELSE None

RECURSIVE ResolveSegments(_, _, _, _, _, _)
\* a path segment looked up in a module of this crate: not found is not a fixed point
SegmentInModule(dm, fs, int, d, segments, i) ==
    IF PerNsIsNone(d) THEN [def |-> PerNsNone, fp |-> FALSE]
    ELSE ResolveSegments(dm, fs, int, d, segments, i + 1)

\* a path segment looked up among the variants of enum c
SegmentInEnum(dm, fs, int, c, v, segments, i) ==
    IF IsNone(v) THEN [def |-> PerNsTypes(c), fp |-> TRUE]
    ELSE ResolveSegments(dm, fs, int, PerNsBoth(Unwrap(v), Unwrap(v)), segments, i + 1)

\* segment i of the path resolved in the definition c the path resolved to so far
SegmentIn(dm, fs, int, c, segments, i) ==
    CASE c.kind = "Module" ->
           IF c.krate # dm.krate
           THEN [def |-> ResolveInDep(PerNsTypes(c), segments, i), fp |-> TRUE]
           ELSE SegmentInModule(dm, fs, int, ScopeDef(dm.modules[c.id].scope, segments[i]),
                                segments, i)
      [] c.kind = "Enum" ->
           SegmentInEnum(dm, fs, int, c,
                         VariantNamed(c, EnumVariants(fs, int, c), segments[i]), segments, i)
      [] OTHER -> [def |-> PerNsTypes(c), fp |-> TRUE]

\* the segment loop of CrateDefMap::resolve_path_fp: [def, fp]
ResolveSegments(dm, fs, int, cur, segments, i) ==
    IF i > Len(segments) THEN [def |-> cur, fp |-> TRUE]
    ELSE IF IsNone(cur.types) THEN [def |-> PerNsNone, fp |-> FALSE]
    ELSE SegmentIn(dm, fs, int, Unwrap(cur.types), segments, i)

\* the definition the first segment of a path resolves to, and the index of the
\* next segment; None for `super` in the crate root and for an empty plain path
PathStart(dm, module_id, path) ==
    CASE path.kind = "Crate" -> Some([def |-> PerNsTypes(ModuleOf(dm.krate, dm.root)), i |-> 1])
      [] path.kind = "Self" -> Some([def |-> PerNsTypes(ModuleOf(dm.krate, module_id)), i |-> 1])
      [] path.kind = "Super" ->
           IF IsSome(dm.modules[module_id].parent)
           THEN Some([def |-> PerNsTypes(ModuleOf(dm.krate,
                                            Unwrap(dm.modules[module_id].parent))),
                      i |-> 1])
           ELSE None
      [] OTHER ->
           IF path.segments = <<>> THEN None
           ELSE Some([def |-> ResolveNameInModule(dm, module_id, path.segments[1]), i |-> 2])

ResolveFrom(dm, fs, int, start, segments) ==
    IF IsNone(start) THEN [def |-> PerNsNone, fp |-> TRUE]
    ELSE ResolveSegments(dm, fs, int, Unwrap(start).def, segments, Unwrap(start).i)

\* CrateDefMap::resolve_path_fp in ResolveMode::Import: [def, fp]
ResolvePathFp(dm, fs, int, module_id, path) ==
    ResolveFrom(dm, fs, int, PathStart(dm, module_id, path), path.segments)

(***************************************************************************)
(* DefCollector::update / update_recursive                                 *)
(***************************************************************************)
\* the first `if` of the loop body of update_recursive: fill the types slot
FillTypes(existing, import, res) ==
    IF IsNone(existing.def.types) /\ IsSome(res.def.types)
    THEN [def |-> [existing.def EXCEPT !.types = res.def.types],
          import |-> OptOr(import, res.import)]
    ELSE existing

\* a values slot filled by whatever the resolution offers, filled or not before
FillValuesOverwriting(existing, import, res) ==
    IF IsSome(res.def.values)
    THEN [def |-> [existing.def EXCEPT !.values = res.def.values],
          import |-> OptOr(import, res.import)]
    ELSE existing

\* the second `if`: fill the values slot
FillValues(existing, import, res) ==
    IF IsNone(existing.def.values) /\ IsSome(res.def.values)
    THEN [def |-> [existing.def EXCEPT !.values = res.def.values],
          import |-> OptOr(import, res.import)]
    ELSE existing

\* an update that leaves no import on an empty entry
NeverMarked(existing, res) == existing

\* the third `if`: an empty resolution leaves its import on an empty entry
MarkImport(existing, res) ==
    IF PerNsIsNone(existing.def) /\ PerNsIsNone(res.def)
       /\ IsNone(existing.import) /\ IsSome(res.import)
    THEN [existing EXCEPT !.import = res.import]
    ELSE existing

\* the entry of a name after the loop body of update_recursive ran for (name, res)
UpdateEntry(existing, import, res) ==
    MarkImport(FillValues(FillTypes(existing, import, res), import, res), res)

\* a loop body that sets `changed` when it fills the types slot only
TypesChanged(existing, res) == IsNone(existing.def.types) /\ IsSome(res.def.types)

\* whether the loop body set `changed` for this pair
EntryChanged(existing, res) ==
    \/ IsNone(existing.def.types) /\ IsSome(res.def.types)
    \/ IsNone(existing.def.values) /\ IsSome(res.def.values)

\* module_items.items.entry(name.clone()).or_default()
EntryOrDefault(scope, name) == IF name \in DOMAIN scope THEN scope[name] ELSE DefaultResolution

RECURSIVE UpdateItems(_, _, _, _)
\* one iteration of the loop over resolutions
UpdateItem(scope, import, resolutions, changed, name, res) ==
    UpdateItems(Insert(scope, name, UpdateEntry(EntryOrDefault(scope, name), import, res)),
                import, Tail(resolutions),
                changed \/ EntryChanged(EntryOrDefault(scope, name), res))

\* the loop over resolutions: [scope, changed]
UpdateItems(scope, import, resolutions, changed) ==
    IF resolutions = <<>> THEN [scope |-> scope, changed |-> changed]
    ELSE UpdateItem(scope, import, resolutions, changed,
                    Head(resolutions).name, Head(resolutions).res)

\* a glob_imports table whose edges are never found
NoGlobEdges(globs, module_id) == <<>>

\* self.glob_imports.get(&module_id), flattened
GlobEdges(globs, module_id) == IF module_id \in DOMAIN globs THEN globs[module_id] ELSE <<>>

RECURSIVE UpdateRecursive(_, _, _, _, _, _)
RECURSIVE ForwardGlobs(_, _, _, _, _)
\* an update_recursive that goes on to the glob imports of the module whether
\* its scope changed or not, and stops only at a depth of twice the number of
\* modules
ForwardUnchanged(mods, globs, module_id, resolutions, depth, r) ==
    IF depth >= 2 * Len(mods)
    THEN [mods |-> [mods EXCEPT ![module_id].scope = r.scope], panic |-> FALSE,
          deepest |-> depth]
    ELSE ForwardGlobs([mods EXCEPT ![module_id].scope = r.scope], globs,
                      GlobEdges(globs, module_id), resolutions, depth)

\* update_recursive after its loop over resolutions gave r = [scope, changed]
Forward(mods, globs, module_id, resolutions, depth, r) ==
    IF ~r.changed
    THEN [mods |-> [mods EXCEPT ![module_id].scope = r.scope], panic |-> FALSE,
          deepest |-> depth]
    ELSE ForwardGlobs([mods EXCEPT ![module_id].scope = r.scope], globs,
                      GlobEdges(globs, module_id), resolutions, depth)

\* update_recursive: [mods, panic, deepest], deepest being the greatest `depth`
\* a call of the recursion was made with
UpdateRecursive(mods, globs, module_id, import, resolutions, depth) ==
    IF depth > GlobDepthLimit THEN [mods |-> mods, panic |-> TRUE, deepest |-> depth]
    ELSE Forward(mods, globs, module_id, resolutions, depth,
                 UpdateItems(mods[module_id].scope, import, resolutions, FALSE))

\* the result u of the calls that followed a call that went as deep as d
Deeper(d, u) == [u EXCEPT !.deepest = IF d > @ THEN d ELSE @]

\* the rest of the loop over the glob imports, after the recursive call gave r
ForwardRest(r, globs, edges, resolutions, depth) ==
    IF r.panic THEN r
    ELSE Deeper(r.deepest, ForwardGlobs(r.mods, globs, Tail(edges), resolutions, depth))

\* the loop over the glob imports of the changed module
ForwardGlobs(mods, globs, edges, resolutions, depth) ==
    IF edges = <<>> THEN [mods |-> mods, panic |-> FALSE, deepest |-> depth]
    ELSE ForwardRest(UpdateRecursive(mods, globs, Head(edges).module,
                                     Some(Head(edges).import), resolutions, depth + 1),
                     globs, edges, resolutions, depth)

\* DefCollector::update
Update(mods, globs, module_id, import, resolutions) ==
    UpdateRecursive(mods, globs, module_id, import, resolutions, 0)

NameRes(name, res) == [name |-> name, res |-> res]

(***************************************************************************)
(* DefCollector: applying a resolved import                                *)
(***************************************************************************)
\* scope.items.iter().map(|(name, res)| (name.clone(), res.clone())).collect()
ScopeItems(scope) ==
    LET names == SetToSeq(DOMAIN scope)
    IN [i \in 1..Len(names) |-> NameRes(names[i], scope[names[i]])]

\* a Resolution that offers the variant to the type namespace alone
VariantTypesOnly(variant, import_id) ==
    [def |-> PerNsTypes(variant), import |-> Some(import_id)]

\* the Resolution a glob import of an enum gives one of its variants
VariantResolution(variant, import_id) ==
    [def |-> PerNsBoth(variant, variant), import |-> Some(import_id)]

RECURSIVE VariantResolutions(_, _, _, _)
\* the filter_map over e.variants(db): nameless variants are skipped
VariantResolutions(e, variants, import_id, i) ==
    IF i > Len(variants) THEN <<>>
    ELSE (IF IsSome(variants[i])
          THEN <<NameRes(Unwrap(variants[i]), VariantResolution(VariantOf(e, i), import_id))>>
          ELSE <<>>)
         \o VariantResolutions(e, variants, import_id, i + 1)

\* the glob_imports entry pushed for a glob import of a module of this crate
RegisterGlob(globs, m, module_id, import_id) ==
    Insert(globs, m, Append(GlobEdges(globs, m), [module |-> module_id, import |-> import_id]))

\* an extern prelude that takes the name of an `extern crate` item of any module
ExternPreludeOfAnyModule(dm, module_id, import, name, def) ==
    IF import.is_extern_crate /\ IsSome(def.types)
    THEN Insert(dm.extern_prelude, name, Unwrap(def.types))
    ELSE dm.extern_prelude

\* the extern prelude after a non-glob import bound `name` to `def` in module_id
ExternPreludeAfter(dm, module_id, import, name, def) ==
    IF import.is_extern_crate /\ module_id = dm.root /\ IsSome(def.types)
    THEN Insert(dm.extern_prelude, name, Unwrap(def.types))
    ELSE dm.extern_prelude

\* the state after self.update(..) returned u = [mods, panic, deepest]
Updated(dm, c, u) ==
    [def_map |-> [dm EXCEPT !.modules = u.mods], col |-> c, panic |-> u.panic,
     deepest |-> u.deepest]

\* the name a non-glob import binds: its alias, or the last segment of its path
ImportName(import) ==
    IF IsSome(import.alias) THEN Unwrap(import.alias)
    ELSE import.path.segments[Len(import.path.segments)]

\* a record_resolved_import that registers the glob import of a module of any
\* crate for propagation
RecordGlobOfAnyModule(dm, c, module_id, m, import_id, import) ==
    IF import.is_prelude THEN
        [def_map |-> [dm EXCEPT !.prelude = Some(ModuleRef(m.krate, m.id))],
         col |-> c, panic |-> FALSE, deepest |-> 0]
    ELSE
        Updated(dm, [c EXCEPT !.glob_imports = RegisterGlob(@, m.id, module_id, import_id)],
                Update(dm.modules, c.glob_imports, module_id, Some(import_id),
                       ScopeItems(IF m.krate # dm.krate
                                  THEN CrateDefMapOf(m.krate).modules[m.id].scope
                                  ELSE dm.modules[m.id].scope)))

\* record_resolved_import for a glob import whose type namespace holds module m
RecordGlobOfModule(dm, c, module_id, m, import_id, import) ==
    IF import.is_prelude THEN
        [def_map |-> [dm EXCEPT !.prelude = Some(ModuleRef(m.krate, m.id))],
         col |-> c, panic |-> FALSE, deepest |-> 0]
    ELSE IF m.krate # dm.krate THEN
        Updated(dm, c,
                Update(dm.modules, c.glob_imports, module_id, Some(import_id),
                       ScopeItems(CrateDefMapOf(m.krate).modules[m.id].scope)))
    ELSE
        Updated(dm, [c EXCEPT !.glob_imports = RegisterGlob(@, m.id, module_id, import_id)],
                Update(dm.modules, c.glob_imports, module_id, Some(import_id),
                       ScopeItems(dm.modules[m.id].scope)))

\* record_resolved_import for a glob import
RecordGlob(dm, c, fs, int, module_id, t, import_id, import) ==
    IF IsSome(t) /\ Unwrap(t).kind = "Module" THEN
        RecordGlobOfModule(dm, c, module_id, Unwrap(t), import_id, import)
    ELSE IF IsSome(t) /\ Unwrap(t).kind = "Enum" THEN
        Updated(dm, c,
                Update(dm.modules, c.glob_imports, module_id, Some(import_id),
                       VariantResolutions(Unwrap(t), EnumVariants(fs, int, Unwrap(t)),
                                          import_id, 1)))
    ELSE [def_map |-> dm, col |-> c, panic |-> FALSE, deepest |-> 0]

\* record_resolved_import for a non-glob import that binds `name`
RecordNamed(dm, c, module_id, def, import_id, import, name) ==
    Updated([dm EXCEPT !.extern_prelude =
                ExternPreludeAfter(dm, module_id, import, name, def)],
            c,
            Update(dm.modules, c.glob_imports, module_id, Some(import_id),
                   <<NameRes(name, [def |-> def, import |-> Some(import_id)])>>))

\* record_resolved_import: [def_map, col, panic]
RecordResolvedImport(dm, c, fs, int, module_id, def, import_id, import) ==
    IF import.is_glob THEN RecordGlob(dm, c, fs, int, module_id, def.types, import_id, import)
    ELSE IF import.path.segments = <<>> THEN [def_map |-> dm, col |-> c, panic |-> FALSE, deepest |-> 0]
    ELSE RecordNamed(dm, c, module_id, def, import_id, import, ImportName(import))

\* resolve_import: [def, fp]
ResolveImport(dm, fs, int, module_id, import) ==
    IF import.is_extern_crate
    THEN [def |-> ResolveNameInExternPrelude(dm, import.path.segments[1]), fp |-> TRUE]
    ELSE ResolvePathFp(dm, fs, int, module_id, import.path)

(***************************************************************************)
(* ModCollector                                                            *)
(***************************************************************************)
Frame(module_id, file_id, items) ==
    [module_id |-> module_id, file_id |-> file_id, items |-> items]

Out(dm, c, int, h, push, panic) ==
    [def_map |-> dm, col |-> c, interner |-> int, hist |-> h, push |-> push, panic |-> panic,
     deepest |-> 0]

\* a push_child_module that leaves the child's definition at its default
WithChildUndefined(mods, parent, name, declaration, definition) ==
    [Append(mods, [DefaultModuleData EXCEPT !.parent = Some(parent),
                                            !.declaration = Some(declaration)])
        EXCEPT ![parent].children = Insert(@, name, Len(mods) + 1)]

\* the module arena after push_child_module allocated the child and linked it
WithChild(mods, parent, name, declaration, definition) ==
    [Append(mods, [DefaultModuleData EXCEPT !.parent = Some(parent),
                                            !.declaration = Some(declaration),
                                            !.definition = definition])
        EXCEPT ![parent].children = Insert(@, name, Len(mods) + 1)]

\* a push_child_module that links the child and does not bind its name
PushChildUnbound(dm, globs, parent, name, declaration, definition) ==
    [mods |-> WithChild(dm.modules, parent, name, declaration, definition),
     panic |-> FALSE, deepest |-> 0]

\* push_child_module: the def map and the panic flag after it; the child's id is
\* the next index of the arena
PushChildModule(dm, globs, parent, name, declaration, definition) ==
    Update(WithChild(dm.modules, parent, name, declaration, definition), globs, parent, None,
           <<NameRes(name, [def |-> PerNsTypes(ModuleOf(dm.krate, Len(dm.modules) + 1)),
                            import |-> None])>>)

\* a relative path of the source root: its directory and its file stem (extension .rs)
RelPath(dir, stem) == [dir |-> dir, stem |-> stem]

\* sr.files.get(&path)
FileAt(fs, path) ==
    IF \E f \in 1..Len(fs) : fs[f].path = path
    THEN Some(CHOOSE f \in 1..Len(fs) : fs[f].path = path) ELSE None

\* candidates with the directory's mod.rs before the file
SubmoduleCandidatesDirFirst(fs, int, file_id, name, is_root) ==
    LET path == fs[OriginalFile(int, file_id)].path
        is_dir_owner == is_root \/ path.stem = "mod"
    IN IF is_dir_owner
       THEN <<RelPath(Append(path.dir, name), "mod"), RelPath(path.dir, name)>>
       ELSE <<RelPath(Append(path.dir, path.stem), name)>>

\* the candidate paths of `mod name;` declared in file_id
SubmoduleCandidates(fs, int, file_id, name, is_root) ==
    LET path == fs[OriginalFile(int, file_id)].path
        dir_path == path.dir
        mod_name == path.stem
        is_dir_owner == is_root \/ mod_name = "mod"
        file_mod == RelPath(dir_path, name)
        dir_mod == RelPath(Append(dir_path, name), "mod")
        file_dir_mod == RelPath(Append(dir_path, mod_name), name)
    IN IF is_dir_owner THEN <<file_mod, dir_mod>> ELSE <<file_dir_mod>>

\* the candidates that exist, as file ids, in candidate order
PointsTo(fs, candidates) ==
    LET found == SelectSeq(candidates, LAMBDA p : IsSome(FileAt(fs, p)))
    IN [i \in 1..Len(found) |-> Unwrap(FileAt(fs, found[i]))]

\* a problem that suggests the last candidate
ProblemWithLastCandidate(points_to, candidates) ==
    IF points_to = <<>>
    THEN Some([kind |-> "UnresolvedModule", candidate |-> candidates[Len(candidates)]])
    ELSE None

\* the problem resolve_submodule reports
SubmoduleProblem(points_to, candidates) ==
    IF points_to = <<>>
    THEN Some([kind |-> "UnresolvedModule", candidate |-> candidates[1]])
    ELSE None

ResolvedSubmodule(fs, candidates) ==
    [file_ids |-> PointsTo(fs, candidates),
     problem |-> SubmoduleProblem(PointsTo(fs, candidates), candidates)]

\* resolve_submodule: [file_ids, problem]
ResolveSubmodule(fs, int, file_id, name, is_root) ==
    ResolvedSubmodule(fs, SubmoduleCandidates(fs, int, file_id, name, is_root))

\* self.def_collector.def_map.problems.add(source_item_id, problem)
AddProblem(dm, source_item_id, problem) ==
    IF IsSome(problem)
    THEN [dm EXCEPT !.problems = Append(@, [at |-> source_item_id, problem |-> Unwrap(problem)])]
    ELSE dm

\* the outcome of a step that called push_child_module (u = [mods, panic]) and
\* then collect on the child's items
ChildPushed(dm, c, int, h, u, file_id, items) ==
    [Out([dm EXCEPT !.modules = u.mods], c, int, h,
         <<Frame(Len(dm.modules) + 1, file_id, items)>>, u.panic)
        EXCEPT !.deepest = u.deepest]

\* collect_module for ModuleData::Declaration, once resolve_submodule gave sub
\* and its problem was added
CollectFile(dm, c, int, h, fs, frame, module, source_item_id, sub) ==
    IF sub.file_ids = <<>> THEN Out(dm, c, int, h, <<>>, FALSE)
    ELSE ChildPushed(dm, c, int, h,
                     PushChildModule(dm, c.glob_imports, frame.module_id, module.name,
                                     source_item_id, Some(sub.file_ids[1])),
                     RealFile(sub.file_ids[1]), fs[sub.file_ids[1]].items)

\* what the history keeps of one `mod name;` declaration collect_module handled
Declared(frame, module, source_item_id) ==
    [at |-> source_item_id, parent |-> frame.module_id, name |-> module.name]

\* collect_module for ModuleData::Declaration
CollectDeclaration(dm, c, int, h, fs, frame, module, source_item_id, sub) ==
    CollectFile(AddProblem(dm, source_item_id, sub.problem), c, int,
                [h EXCEPT !.declared = Append(@, Declared(frame, module, source_item_id))],
                fs, frame, module, source_item_id, sub)

\* collect_module
CollectModule(dm, c, int, h, fs, frame, module) ==
    IF ~module.decl THEN
        ChildPushed(dm, c, int, h,
                    PushChildModule(dm, c.glob_imports, frame.module_id, module.name,
                                    SourceItemId(frame.file_id, module.sid), None),
                    frame.file_id, module.items)
    ELSE
        CollectDeclaration(dm, c, int, h, fs, frame, module,
                           SourceItemId(frame.file_id, module.sid),
                           ResolveSubmodule(fs, int, frame.file_id, module.name,
                                            IsNone(dm.modules[frame.module_id].parent)))

\* a definition offered in both namespaces, whatever its kind
DefInBothNamespaces(kind, d) == PerNsBoth(d, d)

\* the namespaces a direct definition of each kind is offered in
DefPerNs(kind, d) ==
    CASE kind = "Function" -> PerNsValues(d)
      [] kind = "Struct" -> PerNsBoth(d, d)
      [] kind = "Enum" -> PerNsTypes(d)
      [] kind = "Const" -> PerNsValues(d)
      [] kind = "Static" -> PerNsValues(d)
      [] kind = "Trait" -> PerNsTypes(d)
      [] kind = "TypeAlias" -> PerNsTypes(d)

\* the outcome of a step whose call of update returned u = [mods, panic]
Defined(dm, c, int, h, u) ==
    [Out([dm EXCEPT !.modules = u.mods], c, int, h, <<>>, u.panic) EXCEPT !.deepest = u.deepest]

\* define_def
DefineDef(dm, c, int, h, frame, def, module) ==
    Defined(dm, c, InternItem(int, def.kind, module, frame.file_id, def.sid), h,
            Update(dm.modules, c.glob_imports, frame.module_id, None,
                   <<NameRes(def.name,
                       [def |-> DefPerNs(def.kind,
                                   ItemDef(def.kind,
                                       FromSourceItemId(int, def.kind, module,
                                                        frame.file_id, def.sid))),
                        import |-> None])>>))

\* a define_macro that leaves a name of the crate-global scope with the
\* definition registered first
DefineParsedFirstWins(dm, c, name, rules, export) ==
    [def_map |-> [dm EXCEPT !.macros = Append(@, rules),
                            !.public_macros =
                                IF export THEN Insert(@, name, Len(dm.macros) + 1) ELSE @],
     col |-> [c EXCEPT !.global_macro_scope =
                 IF name \in DOMAIN @ THEN @ ELSE Insert(@, name, Len(dm.macros) + 1)]]

\* define_macro, once the rules parsed
DefineParsed(dm, c, name, rules, export) ==
    [def_map |-> [dm EXCEPT !.macros = Append(@, rules),
                            !.public_macros =
                                IF export THEN Insert(@, name, Len(dm.macros) + 1) ELSE @],
     col |-> [c EXCEPT !.global_macro_scope = Insert(@, name, Len(dm.macros) + 1)]]

\* define_macro: [def_map, col]
DefineMacro(dm, c, name, tt, export) ==
    IF IsSome(ParseRules(tt)) THEN DefineParsed(dm, c, name, Unwrap(ParseRules(tt)), export)
    ELSE [def_map |-> dm, col |-> c]

MacroDefId(krate, macro_id) == [krate |-> krate, macro_id |-> macro_id]

\* a macro_resolutions table the expansion is not recorded in
KeepResolutions(resolutions, macro_call_id, macro_def_id) == resolutions

\* the macro_resolutions table after a successful expansion of macro_call_id
RecordMacroResolution(resolutions, macro_call_id, macro_def_id) ==
    Insert(resolutions, macro_call_id, macro_def_id)

\* the rules of a macro of this crate or of a dependency
RulesOf(dm, macro_def_id) ==
    IF macro_def_id.krate = dm.krate
    THEN dm.macros[macro_def_id.macro_id]
    ELSE CrateDefMapOf(macro_def_id.krate).macros[macro_def_id.macro_id]

\* a collect_macro_expansion that records the resolution before it looks at
\* the result of rules.expand
RecordedBeforeExpanding(dm, module_id, macro_call_id, macro_def_id, expansion) ==
    [def_map |-> [dm EXCEPT !.macro_resolutions =
                     RecordMacroResolution(@, macro_call_id, macro_def_id)],
     push |-> IF IsSome(expansion)
              THEN <<Frame(module_id, MacroFile(macro_call_id), Unwrap(expansion))>>
              ELSE <<>>]

\* collect_macro_expansion, once rules.expand gave `expansion`
Expanded(dm, module_id, macro_call_id, macro_def_id, expansion) ==
    IF IsSome(expansion)
    THEN [def_map |-> [dm EXCEPT !.macro_resolutions =
                          RecordMacroResolution(@, macro_call_id, macro_def_id)],
          push |-> <<Frame(module_id, MacroFile(macro_call_id), Unwrap(expansion))>>]
    ELSE [def_map |-> dm, push |-> <<>>]

\* collect_macro_expansion: [def_map, push]
CollectMacroExpansion(dm, module_id, macro_call_id, macro_def_id, macro_arg) ==
    Expanded(dm, module_id, macro_call_id, macro_def_id,
             Expand(RulesOf(dm, macro_def_id), macro_arg))

OutDefined(r, int, h) == Out(r.def_map, r.col, int, h, <<>>, FALSE)
OutExpanded(r, c, int, h) == Out(r.def_map, c, int, h, r.push, FALSE)

\* collect_macro for an invocation, once its MacroCallId is interned
CollectInvocation(dm, c, int, h, frame, mac, macro_call_id, ident) ==
    IF IsSome(ident) /\ Unwrap(ident) \in DOMAIN c.global_macro_scope THEN
        OutExpanded(CollectMacroExpansion(dm, frame.module_id, macro_call_id,
                        MacroDefId(dm.krate, c.global_macro_scope[Unwrap(ident)]), mac.arg),
                    c, int, h)
    ELSE
        Out(dm, [c EXCEPT !.unexpanded_macros =
                     Append(@, [module_id |-> frame.module_id, call_id |-> macro_call_id,
                                path |-> mac.path, arg |-> mac.arg])],
            int, h, <<>>, FALSE)

\* collect_macro
CollectMacro(dm, c, int, h, frame, mac, module, source_item_id) ==
    IF IsMacroRules(mac.path) THEN
        IF IsSome(mac.name)
        THEN OutDefined(DefineMacro(dm, c, Unwrap(mac.name), mac.arg, mac.export), int, h)
        ELSE Out(dm, c, int, h, <<>>, FALSE)
    ELSE
        CollectInvocation(dm, c, InternMacroCall(int, module, source_item_id), h, frame, mac,
                          MacroCallIdOf(int, module, source_item_id), AsIdent(mac.path))

\* the unresolved_imports entry pushed for an import item; qid numbers the
\* entries in the order they were queued
QueueImport(c, h, frame, import) ==
    Append(c.unresolved_imports,
           [module_id |-> frame.module_id, import |-> import.id, data |-> import.data,
            qid |-> h.queued + 1])

\* one iteration of the loop of ModCollector::collect
CollectItem(dm, c, int, h, fs, frame, item) ==
    CASE item.k = "Module" -> CollectModule(dm, c, int, h, fs, frame, item)
      [] item.k = "Import" ->
            Out(dm, [c EXCEPT !.unresolved_imports = QueueImport(c, h, frame, item)],
                int, [h EXCEPT !.queued = @ + 1], <<>>, FALSE)
      [] item.k = "Def" ->
            DefineDef(dm, c, int, h, frame, item, ModuleRef(dm.krate, frame.module_id))
      [] item.k = "Macro" ->
            CollectMacro(dm, c, int, h, frame, item, ModuleRef(dm.krate, frame.module_id),
                         SourceItemId(frame.file_id, item.sid))

(***************************************************************************)
(* Input packages                                                          *)
(***************************************************************************)
SeqsUpTo(S, n) == UNION {[1..k -> S] : k \in 0..n}

\* items numbered as RawItems::from_source_file numbers them: distinct
\* SourceFileItemIds and ImportIds within one file
Renumber(items, base) ==
    [i \in 1..Len(items) |->
        IF items[i].k = "Import" THEN [items[i] EXCEPT !.id = base + i]
        ELSE [items[i] EXCEPT !.sid = base + i]]

SuperB(rest) == PathOf("Super", <<"b">> \o rest)
SuperA(rest) == PathOf("Super", <<"a">> \o rest)
DepPath(rest) == PathOf("Plain", <<"dep">> \o rest)

\* items of module a, the importing module
MenuA ==
    { UseGlob(0, SuperB(<<>>)),
      UseAs(0, SuperB(<<"E">>), "f"),
      UseGlob(0, SuperB(<<"E">>)),
      Use(0, SuperB(<<"nope">>)),
      Def(0, "f", "Function"),
      Def(0, "X", "Trait") }

\* items of module b, the imported module
MenuB ==
    { Def(0, "f", "Function"),
      EnumDef(0, "E", <<Some("X"), None, Some("Y")>>),
      UseGlob(0, SuperA(<<>>)),
      Use(0, DepPath(<<"df">>)),
      UseGlob(0, DepPath(<<>>)),
      MacroCall(0, DepPath(<<"make_item">>), "ok") }

\* items of the crate root of a package that uses macros
MenuM ==
    { MacroRulesDef(0, "foo", "t_fn_g", FALSE),
      MacroRulesDef(0, "foo", "t_self", TRUE),
      MacroRulesDef(0, "foo", "bad_rules", FALSE),
      MacroCall(0, PathOf("Plain", <<"foo">>), "ok"),
      MacroCall(0, DepPath(<<"make_item">>), "ok"),
      MacroCall(0, DepPath(<<"make_item">>), "nomatch"),
      MacroCall(0, DepPath(<<"nomacro">>), "ok"),
      MacroCall(0, DepPath(<<"mk_extern">>), "ok"),
      MacroCall(0, PathOf("Plain", <<"x", "make_item">>), "ok") }

LibPath == RelPath(<<>>, "lib")
File(path, items) == [path |-> path, items |-> items]
DepOn(name, krate) == [name |-> name, krate |-> krate]
Program(fs, ds) == [files |-> fs, deps |-> ds]

\* a root with inline modules a and b, at most MaxItems items in all
GlobPrograms ==
    UNION { { Program(<<File(LibPath, <<InlineMod(1, "a", Renumber(ia, 10)),
                                        InlineMod(2, "b", Renumber(ib, 20))>>)>>,
                      <<DepOn("dep", DepKrate)>>) :
                ia \in [1..k -> MenuA], ib \in SeqsUpTo(MenuB, MaxItems - k) } :
            k \in 0..MaxItems }

\* a root of at most MaxMacroItems macro definitions, invocations and extern crates
MacroPrograms ==
    { Program(<<File(LibPath, Renumber(im, 0))>>, <<DepOn("dep", DepKrate)>>) :
        im \in SeqsUpTo(MenuM, MaxMacroItems) }

\* the files a `mod sub;` of the root, a `mod inner;` of sub and a `mod deep;` of
\* sub/mod.rs can resolve to
SubFiles ==
    { File(RelPath(<<>>, "sub"), <<DeclMod(1, "inner"), Def(2, "f", "Function")>>),
      File(RelPath(<<"sub">>, "mod"), <<DeclMod(1, "inner"), Def(2, "g", "Function")>>),
      File(RelPath(<<"sub">>, "inner"), <<Def(1, "h", "Struct")>>),
      File(RelPath(<<"sub", "inner">>, "mod"), <<Def(1, "k", "Trait")>>),
      File(RelPath(<<>>, "inner"), <<Def(1, "z", "Static")>>) }

\* roots of a package with out-of-line modules
ModRoots ==
    { <<DeclMod(1, "sub")>>,
      <<DeclMod(1, "sub"), Use(1, PathOf("Self", <<"sub", "inner">>))>>,
      <<InlineMod(1, "a", <<DeclMod(2, "sub")>>), DeclMod(3, "inner")>> }

DepLists ==
    { <<DepOn("dep", DepKrate)>>,
      <<DepOn("dep2", Dep2Krate), DepOn("dep", DepKrate)>>,
      <<>> }

ModPrograms ==
    { Program(<<File(LibPath, r)>> \o SetToSeq(fs), ds) :
        r \in ModRoots, fs \in SUBSET SubFiles, ds \in DepLists }

\* a root invoking a macro of the dependency whose expansion invokes a macro of
\* the dependency (rec: itself, mk_make: one that expands to a function) or is
\* an `extern crate` item (mk_extern), followed by at most one import
\* (`use self::nope;`, `use dep::df;` or `use super as q;`) or by the invocation
\* `dep::nomacro!()` of a macro the dependency does not have; and a root that
\* invokes mk_make and imports under the name g of the expanded function (`use
\* dep::df as g;`, a function, or `use dep::pre as g;`, a module)
ChainPrograms ==
    { Program(<<File(LibPath, Renumber(<<MacroCall(0, DepPath(<<m>>), "ok")>> \o e, 0))>>,
              <<DepOn("dep", DepKrate)>>) :
        m \in {"rec", "mk_make", "mk_extern"},
        e \in { <<>>, <<Use(0, PathOf("Self", <<"nope">>))>>,
                <<Use(0, DepPath(<<"df">>))>>,
                <<UseAs(0, PathOf("Super", <<>>), "q")>>,
                <<MacroCall(0, DepPath(<<"nomacro">>), "ok")>> } }
    \cup
    { Program(<<File(LibPath, Renumber(<<MacroCall(0, DepPath(<<"mk_make">>), "ok"),
                                         UseAs(0, DepPath(<<n>>), "g")>>, 0))>>,
              <<DepOn("dep", DepKrate)>>) :
        n \in {"df", "pre"} }

\* imports of module a that depend on one another: `use super::b::*;` brings E,
\* `use self::E as g;` needs E and `use self::g::Y;` needs g
MenuChained ==
    { UseGlob(0, SuperB(<<>>)),
      UseAs(0, PathOf("Self", <<"E">>), "g"),
      Use(0, PathOf("Self", <<"g", "Y">>)),
      Use(0, PathOf("Self", <<"E", "X">>)) }

\* a root with an inline module a of two or three such imports and an inline
\* module b that defines the enum E
DependentPrograms ==
    { Program(<<File(LibPath, <<InlineMod(1, "a", Renumber(ia, 10)),
                                InlineMod(2, "b",
                                          <<EnumDef(21, "E", <<Some("X"), Some("Y")>>)>>)>>)>>,
              <<>>) :
        ia \in [1..2 -> MenuChained] \cup [1..3 -> MenuChained] }

\* a root with inline modules a, b and c: a glob-imports b, b glob-imports c, and
\* c may glob-import a, which closes the cycle; a may define a trait, c may
\* define a function, import one, or invoke a macro that expands to one
CyclePrograms ==
    { Program(<<File(LibPath,
                     <<InlineMod(1, "a", Renumber(<<UseGlob(0, SuperB(<<>>))>> \o xa, 10)),
                       InlineMod(2, "b", Renumber(<<UseGlob(0, PathOf("Super", <<"c">>))>>, 20)),
                       InlineMod(3, "c", Renumber(back \o xc, 30))>>)>>,
              <<DepOn("dep", DepKrate)>>) :
        xa \in {<<>>, <<Def(0, "X", "Trait")>>},
        back \in {<<>>, <<UseGlob(0, SuperA(<<>>))>>},
        xc \in {<<>>, <<Def(0, "f", "Function")>>, <<Use(0, DepPath(<<"df">>))>>,
                <<MacroCall(0, DepPath(<<"make_item">>), "ok")>>} }

\* items of a root with `extern crate` items and prelude imports:
\* `extern crate dep as x;`, `extern crate dep;`, `extern crate nodep as y;`,
\* `#[prelude_import] use dep::pre::*;`, `#[prelude_import] use self::a::*;`
\* and `use pf;`, which only a prelude can resolve
MenuRoot ==
    { ExternCrate(0, "dep", Some("x")),
      ExternCrate(0, "dep", None),
      ExternCrate(0, "nodep", Some("y")),
      PreludeGlob(0, DepPath(<<"pre">>)),
      PreludeGlob(0, PathOf("Self", <<"a">>)),
      Use(0, PathOf("Plain", <<"pf">>)) }

\* dependency lists in which the first dependency has a prelude or has none
PreludeDepLists ==
    { <<DepOn("dep", DepKrate)>>,
      <<DepOn("dep2", Dep2Krate), DepOn("dep", DepKrate)>>,
      <<DepOn("dep3", Dep3Krate), DepOn("dep", DepKrate)>>,
      <<DepOn("dep3", Dep3Krate)>> }

\* a root of an inline module a (empty, `extern crate dep as z;` or `fn pf`)
\* followed by at most two items of MenuRoot
PreludePrograms ==
    { Program(<<File(LibPath, <<InlineMod(1, "a", Renumber(ia, 10))>> \o Renumber(ir, 1))>>, ds) :
        ia \in {<<>>, <<ExternCrate(0, "dep", Some("z"))>>, <<Def(0, "pf", "Function")>>},
        ir \in SeqsUpTo(MenuRoot, 2),
        ds \in PreludeDepLists }

\* items of a root that defines and invokes macros of its own: two definitions
\* of foo with different expansions (`fn g` and `fn h`), a definition of foo in
\* an inline module, and invocations of foo that match and that match no rule
MenuLocal ==
    { MacroRulesDef(0, "foo", "t_fn_g", FALSE),
      MacroRulesDef(0, "foo", "t_fn_h", FALSE),
      InlineMod(0, "a", <<MacroRulesDef(11, "foo", "t_fn_h", FALSE)>>),
      MacroCall(0, PathOf("Plain", <<"foo">>), "ok"),
      MacroCall(0, PathOf("Plain", <<"foo">>), "nomatch") }

\* a root of at most MaxMacroItems such items
LocalMacroPrograms ==
    { Program(<<File(LibPath, Renumber(im, 0))>>, <<>>) :
        im \in SeqsUpTo(MenuLocal, MaxMacroItems) }

\* items of a root that all have the name m: `mod m {}`, `mod m;` and a
\* definition of each kind
MenuSameName ==
    { InlineMod(0, "m", <<>>),
      DeclMod(0, "m"),
      Def(0, "m", "Struct"),
      Def(0, "m", "Function"),
      Def(0, "m", "Trait"),
      Def(0, "m", "Const"),
      Def(0, "m", "Static"),
      Def(0, "m", "TypeAlias"),
      EnumDef(0, "m", <<>>) }

\* a root of one or two such items, next to an empty m.rs
SameNamePrograms ==
    { Program(<<File(LibPath, Renumber(im, 0)), File(RelPath(<<>>, "m"), <<>>)>>, <<>>) :
        im \in [1..1 -> MenuSameName] \cup [1..2 -> MenuSameName] }

\* the input is a package of one of the families
IsInput(fs, ds) ==
    \/ \E p \in SameNamePrograms : fs = p.files /\ ds = p.deps
    \/ \E p \in LocalMacroPrograms : fs = p.files /\ ds = p.deps
    \/ \E p \in PreludePrograms : fs = p.files /\ ds = p.deps
    \/ \E p \in CyclePrograms : fs = p.files /\ ds = p.deps
    \/ \E p \in DependentPrograms : fs = p.files /\ ds = p.deps
    \/ \E p \in GlobPrograms : fs = p.files /\ ds = p.deps
    \/ \E p \in MacroPrograms : fs = p.files /\ ds = p.deps
    \/ \E p \in ModPrograms : fs = p.files /\ ds = p.deps
    \/ \E p \in ChainPrograms : fs = p.files /\ ds = p.deps

(***************************************************************************)
(* The pass                                                                *)
(***************************************************************************)
InitCollector ==
    [glob_imports |-> EmptyMap, unresolved_imports |-> <<>>,
     unexpanded_macros |-> <<>>, global_macro_scope |-> EmptyMap]

InitLoop ==
    [i |-> 0, resolved |-> <<>>, resolved_macros |-> <<>>,
     fp_imports |-> TRUE, fp_macros |-> TRUE, cont |-> "imports"]

InitHist ==
    [queued |-> 0, applied |-> <<>>, declared |-> <<>>, rounds |-> 0, exit |-> "none",
     at_pass |-> EmptyDefMap, examined |-> <<>>]

Init ==
    /\ IsInput(files, deps)
    /\ def_map = SeedDeps(EmptyDefMap, deps)
    /\ col = InitCollector
    /\ interner = InitInterner
    /\ stack = <<>>
    /\ pc = "start"
    /\ loop = InitLoop
    /\ hist = InitHist
    /\ source_file = <<>>
    /\ file_items = <<>>

RECURSIVE PopDone(_)
\* the frames left once every collect call that has no item left has returned
PopDone(st) ==
    IF st # <<>> /\ st[Len(st)].items = <<>> THEN PopDone(SubSeq(st, 1, Len(st) - 1))
    ELSE st

\* where the pass continues once the outermost collect call has returned
AfterCollect(l) ==
    IF l.cont = "imports" THEN "imports"
    ELSE IF l.resolved_macros = <<>> THEN "test" ELSE "expand"

\* the stack and position after a step that leaves the frames `rest` and calls
\* collect on the frames `push`
Enter(rest, push, l, panic) ==
    IF panic THEN [stack |-> rest, pc |-> "panic"]
    ELSE IF push # <<>> /\ Len(rest) >= StackLimit THEN [stack |-> rest, pc |-> "overflow"]
    ELSE LET st == PopDone(rest \o push)
         IN [stack |-> st, pc |-> IF st = <<>> THEN AfterCollect(l) ELSE "collect"]

Started(e) ==
    /\ def_map' = [def_map EXCEPT !.modules[def_map.root].definition = Some(RootFile)]
    /\ stack' = e.stack
    /\ pc' = e.pc

\* DefCollector::collect up to the call of ModCollector::collect on the root
Start ==
    /\ pc = "start"
    /\ Started(Enter(<<>>, <<Frame(def_map.root, RealFile(RootFile), files[RootFile].items)>>,
                     loop, FALSE))
    /\ UNCHANGED <<files, deps, col, interner, loop, hist>>
    /\ UNCHANGED syntax_vars

\* the next state of a collect step with outcome out that leaves the frames rest
StepTo(out, e) ==
    /\ def_map' = out.def_map
    /\ col' = out.col
    /\ interner' = out.interner
    /\ hist' = out.hist
    /\ stack' = e.stack
    /\ pc' = e.pc

StepOut(rest, out) == StepTo(out, Enter(rest, out.push, loop, out.panic))

StepFrame(top) ==
    StepOut([stack EXCEPT ![Len(stack)].items = Tail(@)],
            CollectItem(def_map, col, interner, hist, files, top, Head(top.items)))

\* one iteration of the loop of ModCollector::collect in the innermost frame
CollectStep ==
    /\ pc = "collect"
    /\ stack # <<>>
    /\ StepFrame(stack[Len(stack)])
    /\ UNCHANGED <<files, deps, loop>>
    /\ UNCHANGED syntax_vars

RECURSIVE ResolvedOneByOne(_, _, _)
\* the imports of q at a fixed point when each is resolved against the
\* definition map in which the earlier ones are applied already
ResolvedOneByOne(dm, c, q) ==
    IF q = <<>> THEN <<>>
    ELSE IF ResolveImport(dm, files, interner, Head(q).module_id, Head(q).data).fp
    THEN <<[module_id |-> Head(q).module_id,
            def |-> ResolveImport(dm, files, interner, Head(q).module_id, Head(q).data).def,
            import |-> Head(q).import, data |-> Head(q).data, qid |-> Head(q).qid]>>
         \o ResolvedOneByOne(
                RecordResolvedImport(dm, c, files, interner, Head(q).module_id,
                    ResolveImport(dm, files, interner, Head(q).module_id, Head(q).data).def,
                    Head(q).import, Head(q).data).def_map,
                RecordResolvedImport(dm, c, files, interner, Head(q).module_id,
                    ResolveImport(dm, files, interner, Head(q).module_id, Head(q).data).def,
                    Head(q).import, Head(q).data).col,
                Tail(q))
    ELSE ResolvedOneByOne(dm, c, Tail(q))

\* a pass that resolves each import after applying the ones before it
ResolvedImportsOneByOne(q, rs) == ResolvedOneByOne(def_map, col, q)

\* the `resolved` vector of resolve_imports, given the results rs of resolve_import
\* for the queue q, entry by entry
ResolvedImports(q, rs) ==
    LET done == SelectSeq([i \in 1..Len(q) |-> i], LAMBDA i : rs[i].fp)
    IN [k \in 1..Len(done) |->
           [module_id |-> q[done[k]].module_id, def |-> rs[done[k]].def,
            import |-> q[done[k]].import, data |-> q[done[k]].data, qid |-> q[done[k]].qid]]

\* a retain that keeps every import queued
AllRetained(q, rs) == q

\* the imports imports.retain(..) keeps
RetainedImports(q, rs) ==
    LET kept == SelectSeq([i \in 1..Len(q) |-> i], LAMBDA i : ~rs[i].fp)
    IN [k \in 1..Len(kept) |-> q[kept[k]]]

ImportsResolved(resolved, retained) ==
    /\ col' = [col EXCEPT !.unresolved_imports = retained]
    /\ loop' = [loop EXCEPT !.resolved = resolved, !.fp_imports = (resolved = <<>>)]
    /\ pc' = IF resolved = <<>> THEN "macros" ELSE "record"

ResolveImportsWith(q, rs) == ImportsResolved(ResolvedImports(q, rs), RetainedImports(q, rs))

\* resolve_imports, up to the loop that applies the resolved imports: the
\* imports that reached a fixed point leave the queue, with their resolution
ResolveImports ==
    /\ pc = "imports"
    /\ ResolveImportsWith(col.unresolved_imports,
            [i \in 1..Len(col.unresolved_imports) |->
                ResolveImport(def_map, files, interner,
                              col.unresolved_imports[i].module_id,
                              col.unresolved_imports[i].data)])
    /\ hist' = [hist EXCEPT !.at_pass = def_map]
    /\ UNCHANGED <<files, deps, def_map, interner, stack>>
    /\ UNCHANGED syntax_vars

\* what the history keeps of one record_resolved_import call; fresh: the import
\* binds a name that had no entry in the scope of its module before the call
Applied(r, h, final, scope) ==
    [qid |-> r.qid, module_id |-> r.module_id, import |-> r.import,
     round |-> h.rounds, final |-> final, empty |-> PerNsIsNone(r.def),
     data |-> r.data,
     fresh |-> /\ ~r.data.is_glob
               /\ r.data.path.segments # <<>>
               /\ ImportName(r.data) \notin DOMAIN scope]

\* the next state of a step that applied the head of loop.resolved with outcome out
ImportRecorded(out, final, next, last) ==
    /\ def_map' = out.def_map
    /\ col' = out.col
    /\ loop' = [loop EXCEPT !.resolved = Tail(@)]
    /\ hist' = [hist EXCEPT !.applied = Append(@, Applied(Head(loop.resolved), hist, final,
                                           def_map.modules[Head(loop.resolved).module_id].scope))]
    /\ pc' = IF out.panic THEN "panic"
             ELSE IF Tail(loop.resolved) = <<>> THEN last ELSE next

RecordHead(r) ==
    RecordResolvedImport(def_map, col, files, interner, r.module_id, r.def, r.import, r.data)

\* one iteration of the `for ... in resolved` loop of resolve_imports
ApplyResolvedImport ==
    /\ pc = "record"
    /\ loop.resolved # <<>>
    /\ ImportRecorded(RecordHead(Head(loop.resolved)), FALSE, "record", "macros")
    /\ UNCHANGED <<files, deps, interner, stack>>
    /\ UNCHANGED syntax_vars

\* the crate whose macro a queued invocation names, once its first segment
\* resolves in the extern prelude (resolve_macros, the retain closure)
MacroKrate(dm, path) ==
    IF Len(path.segments) # 2 THEN None
    ELSE LET t == ResolveNameInExternPrelude(dm, path.segments[1]).types
         IN IF IsSome(t) /\ Unwrap(t).kind = "Module" THEN Some(Unwrap(t).krate) ELSE None

\* whether the retain closure of resolve_macros keeps an invocation queued
MacroRetained(dm, e) == IsNone(MacroKrate(dm, e.path))

\* whether the retain closure pushes the invocation onto `resolved`
MacroFound(dm, e) ==
    /\ IsSome(MacroKrate(dm, e.path))
    /\ e.path.segments[2] \in DOMAIN CrateDefMapOf(Unwrap(MacroKrate(dm, e.path))).public_macros

\* the entry resolve_macros pushes onto `resolved` for a found invocation
ResolvedMacro(e, krate) ==
    [module_id |-> e.module_id, call_id |-> e.call_id,
     def_id |-> MacroDefId(krate, CrateDefMapOf(krate).public_macros[e.path.segments[2]]),
     arg |-> e.arg]

\* a retain closure that, when the crate has no macro of the name, pushes the
\* invocation with the first macro of the crate
ResolvedMacroOrFirst(e, krate) ==
    IF e.path.segments[2] \in DOMAIN CrateDefMapOf(krate).public_macros
    THEN ResolvedMacro(e, krate)
    ELSE [module_id |-> e.module_id, call_id |-> e.call_id,
          def_id |-> MacroDefId(krate, 1), arg |-> e.arg]

ResolvedMacrosOrFirst(dm, q) ==
    LET found == SelectSeq(q, LAMBDA e : IsSome(MacroKrate(dm, e.path)))
    IN [i \in 1..Len(found) |->
           ResolvedMacroOrFirst(found[i], Unwrap(MacroKrate(dm, found[i].path)))]

ResolvedMacros(dm, q) ==
    LET found == SelectSeq(q, LAMBDA e : MacroFound(dm, e))
    IN [i \in 1..Len(found) |->
           ResolvedMacro(found[i], Unwrap(MacroKrate(dm, found[i].path)))]

\* the local `macros` of resolve_macros after macros.retain(..)
RetainedMacros(dm, q) == SelectSeq(q, LAMBDA e : MacroRetained(dm, e))

\* what the history keeps of the invocations one pass of resolve_macros went
\* through: the invocation and the crate its first segment resolved to
Examined(dm, q) ==
    [i \in 1..Len(q) |->
        [call_id |-> q[i].call_id, path |-> q[i].path, krate |-> MacroKrate(dm, q[i].path),
         round |-> loop.i]]

\* self.unexpanded_macros once resolve_macros has taken the queue with
\* std::mem::replace(.., Vec::new()): the function never stores its local
\* `macros` back, so the invocations it retained are not in the queue
QueueAfterRetain(retained) == <<>>

\* a result that is Yes whenever the closure retained an invocation
FixedPointIfAnyRetained(q, retained) == retained # <<>> \/ q = <<>>

\* the result `res` of resolve_macros: No as soon as the crate of one invocation
\* resolved
MacrosFixedPoint(q, retained) == Len(retained) = Len(q)

MacrosResolved(q, resolved, retained) ==
    /\ col' = [col EXCEPT !.unexpanded_macros = QueueAfterRetain(retained)]
    /\ loop' = [loop EXCEPT !.resolved_macros = resolved,
                            !.fp_macros = MacrosFixedPoint(q, retained),
                            !.cont = "expand"]
    /\ pc' = IF resolved = <<>> THEN "test" ELSE "expand"

\* resolve_macros, up to the loop that expands the resolved invocations
ResolveMacros ==
    /\ pc = "macros"
    /\ MacrosResolved(col.unexpanded_macros,
                      ResolvedMacros(def_map, col.unexpanded_macros),
                      RetainedMacros(def_map, col.unexpanded_macros))
    /\ hist' = [hist EXCEPT !.examined = @ \o Examined(def_map, col.unexpanded_macros)]
    /\ UNCHANGED <<files, deps, def_map, interner, stack>>
    /\ UNCHANGED syntax_vars

MacroEntered(out, l, e) ==
    /\ def_map' = out.def_map
    /\ loop' = l
    /\ stack' = e.stack
    /\ pc' = e.pc

MacroExpanded(out, l) == MacroEntered(out, l, Enter(<<>>, out.push, l, FALSE))

\* one iteration of the `for ... in resolved` loop of resolve_macros, up to the
\* call of ModCollector::collect on the expansion
ExpandMacro ==
    /\ pc = "expand"
    /\ loop.resolved_macros # <<>>
    /\ MacroExpanded(CollectMacroExpansion(def_map, Head(loop.resolved_macros).module_id,
                                           Head(loop.resolved_macros).call_id,
                                           Head(loop.resolved_macros).def_id,
                                           Head(loop.resolved_macros).arg),
                     [loop EXCEPT !.resolved_macros = Tail(@)])
    /\ UNCHANGED <<files, deps, col, interner, hist>>
    /\ UNCHANGED syntax_vars

\* a cap that ends the loop after its first round with progress
CapReachedAtOnce(i) == i = 1

\* a loop without a round cap
CapNeverReached(i) == FALSE

\* `if i == 1000`
CapReached(i) == i = RoundCap

\* a loop that is left as soon as one of the two passes reports a fixed point
EitherFixedPoint(l) == l.fp_imports \/ l.fp_macros

\* (ReachedFixedPoint::Yes, ReachedFixedPoint::Yes) => break
BothFixedPoint(l) == l.fp_imports /\ l.fp_macros

\* the match on the results of the two passes, and the round cap
LoopTest ==
    /\ pc = "test"
    /\ IF BothFixedPoint(loop)
       THEN /\ loop' = loop
            /\ pc' = "finalize"
            /\ hist' = [hist EXCEPT !.rounds = @ + 1, !.exit = "converged"]
       ELSE /\ loop' = [loop EXCEPT !.i = @ + 1]
            /\ pc' = IF CapReached(loop.i + 1) THEN "finalize" ELSE "imports"
            /\ hist' = [hist EXCEPT !.rounds = @ + 1,
                                    !.exit = IF CapReached(loop.i + 1) THEN "cap" ELSE @]
    /\ UNCHANGED <<files, deps, def_map, col, interner, stack>>
    /\ UNCHANGED syntax_vars

\* a finalization that applies none of the imports left in the queue
NoneLeft(q) == <<>>

\* the imports left in the queue, each with the empty resolution
LeftUnresolved(q) ==
    [i \in 1..Len(q) |->
        [module_id |-> q[i].module_id, def |-> PerNsNone, import |-> q[i].import,
         data |-> q[i].data, qid |-> q[i].qid]]

\* the state once the queue was taken as the local `unresolved_imports` = left
Finalized(left) ==
    /\ loop' = [loop EXCEPT !.resolved = left]
    /\ col' = [col EXCEPT !.unresolved_imports = <<>>]
    /\ pc' = IF left = <<>> THEN "done" ELSE "final"

\* std::mem::replace(&mut self.unresolved_imports, Vec::new())
Finalize ==
    /\ pc = "finalize"
    /\ Finalized(LeftUnresolved(col.unresolved_imports))
    /\ UNCHANGED <<files, deps, def_map, interner, stack, hist>>
    /\ UNCHANGED syntax_vars

\* one iteration of the final `for ... in unresolved_imports` loop of collect
ApplyUnresolvedImport ==
    /\ pc = "final"
    /\ loop.resolved # <<>>
    /\ ImportRecorded(RecordHead(Head(loop.resolved)), TRUE, "final", "done")
    /\ UNCHANGED <<files, deps, interner, stack>>
    /\ UNCHANGED syntax_vars

Next ==
    \/ Start
    \/ CollectStep
    \/ ResolveImports
    \/ ApplyResolvedImport
    \/ ResolveMacros
    \/ ExpandMacro
    \/ LoopTest
    \/ Finalize
    \/ ApplyUnresolvedImport

Spec == Init /\ [][Next]_vars

(***************************************************************************)
(* A session of intern calls on a fresh HirInterner: every call interns    *)
(* the location of an item (AstItemDef::from_source_item_id_unchecked) or  *)
(* of a macro invocation (MacroCallLoc::id) and hands out its id.          *)
(***************************************************************************)
\* number of distinct locations one session interns
MaxInterns == 3

\* HirInterner::default()
EmptyInterner ==
    [macros |-> <<>>, fns |-> <<>>, structs |-> <<>>, enums |-> <<>>, consts |-> <<>>,
     statics |-> <<>>, traits |-> <<>>, types |-> <<>>]

\* the (module, source item id) pairs a session interns: a pair, and pairs that
\* differ from it in the module, in the file, in the item, and in all three
SessionLocs ==
    { [module |-> ModuleRef(Krate, 1), raw |-> SourceItemId(RealFile(1), 1)],
      [module |-> ModuleRef(Krate, 2), raw |-> SourceItemId(RealFile(1), 1)],
      [module |-> ModuleRef(Krate, 1), raw |-> SourceItemId(MacroFile(1), 1)],
      [module |-> ModuleRef(Krate, 1), raw |-> SourceItemId(RealFile(1), 2)],
      [module |-> ModuleRef(Krate, 2), raw |-> SourceItemId(MacroFile(1), 2)] }

\* the item kinds a session interns
SessionKinds == {"Function", "Struct"}

\* number of locations interned so far, over all kinds
Interned(int) ==
    Len(int.macros) + Len(int.fns) + Len(int.structs) + Len(int.enums) + Len(int.consts)
        + Len(int.statics) + Len(int.traits) + Len(int.types)

\* what the session remembers of a call: the call and the id it returned, and
\* for every (kind, pair) the id its first call returned
Called(h, kind, pair, id) ==
    [last |-> <<[kind |-> kind, pair |-> pair, id |-> id,
                 repeat |-> <<kind, pair>> \in DOMAIN h.ids]>>,
     ids |-> IF <<kind, pair>> \in DOMAIN h.ids THEN h.ids ELSE Insert(h.ids, <<kind, pair>>, id)]

SessionInit ==
    /\ files = <<>>
    /\ deps = <<>>
    /\ def_map = EmptyDefMap
    /\ col = InitCollector
    /\ interner = EmptyInterner
    /\ stack = <<>>
    /\ pc = "session"
    /\ loop = InitLoop
    /\ hist = [last |-> <<>>, ids |-> EmptyMap]
    /\ source_file = <<>>
    /\ file_items = <<>>

\* the interner and the history after a call
InternCalled(int, h) ==
    /\ Interned(int) <= MaxInterns
    /\ interner' = int
    /\ hist' = h

\* AstItemDef::from_source_item_id_unchecked for an item of `kind`
InternDefOf(kind, pair) ==
    InternCalled(InternItem(interner, kind, pair.module, pair.raw.file_id, pair.raw.item_id),
                 Called(hist, kind, pair,
                        FromSourceItemId(interner, kind, pair.module, pair.raw.file_id,
                                         pair.raw.item_id)))

InternDef ==
    /\ pc = "session"
    /\ \E kind \in SessionKinds : \E pair \in SessionLocs : InternDefOf(kind, pair)
    /\ UNCHANGED <<files, deps, def_map, col, stack, pc, loop>>
    /\ UNCHANGED syntax_vars

\* MacroCallLoc::id
InternCallOf(pair) ==
    InternCalled(InternMacroCall(interner, pair.module, pair.raw),
                 Called(hist, "Macro", pair, MacroCallIdOf(interner, pair.module, pair.raw)))

InternCall ==
    /\ pc = "session"
    /\ \E pair \in SessionLocs : InternCallOf(pair)
    /\ UNCHANGED <<files, deps, def_map, col, stack, pc, loop>>
    /\ UNCHANGED syntax_vars

SessionNext ==
    \/ InternDef
    \/ InternCall

SpecIntern == SessionInit /\ [][SessionNext]_vars

(***************************************************************************)
(* Per-file item ids (SourceFileItems): a syntax tree is a sequence of     *)
(* node kinds, node 1 being the SourceFile, and the children of each node  *)
(* in order. A node keeps its number when the tree is edited; the number   *)
(* stands for the text range a SyntaxNodePtr names the node by.            *)
(***************************************************************************)
\* number of nodes below the SourceFile node of an input tree
MaxNodes == 3

Tree(kind, children) == [kind |-> kind, children |-> children]
Nodes(tree) == 1..Len(tree.kind)

\* ast::ModuleItem::cast succeeds
IsModuleItem(kind) == kind \in {"FnDef", "TraitDef"}
\* ast::MacroCall::cast succeeds
IsMacroCall(kind) == kind = "MacroCall"

\* SyntaxNodePtr::new
SyntaxNodePtr(tree, n) == [node |-> n, kind |-> tree.kind[n]]

\* SyntaxNodePtr::to_node: the node of the file the pointer names; None where
\* the file has no such node and to_node panics
ToNode(ptr, tree) ==
    IF ptr.node \in Nodes(tree) /\ tree.kind[ptr.node] = ptr.kind THEN Some(ptr.node) ELSE None

RECURSIVE Concat(_)
Concat(ss) == IF ss = <<>> THEN <<>> ELSE Head(ss) \o Concat(Tail(ss))

\* a next layer that takes the nodes of a layer from right to left
NextLayerRightToLeft(tree, curr_layer) ==
    Concat([i \in 1..Len(curr_layer) |-> tree.children[curr_layer[Len(curr_layer) + 1 - i]]])

\* next_layer after curr_layer.drain(..): the children of the nodes of a layer
NextLayer(tree, curr_layer) ==
    Concat([i \in 1..Len(curr_layer) |-> tree.children[curr_layer[i]]])

RECURSIVE Preorder(_, _)
\* a depth-first walk: a node, then the subtree of each of its children
Preorder(tree, n) ==
    <<n>> \o Concat([i \in 1..Len(tree.children[n]) |-> Preorder(tree, tree.children[n][i])])

\* a walk that visits the nodes in depth-first order
DfsFrom(tree, curr_layer) == Preorder(tree, curr_layer[1])

RECURSIVE DeepestFirstFrom(_, _)
\* a walk that visits the deepest layer first
DeepestFirstFrom(tree, curr_layer) ==
    IF curr_layer = <<>> THEN <<>>
    ELSE DeepestFirstFrom(tree, NextLayer(tree, curr_layer)) \o curr_layer

RECURSIVE BfsFrom(_, _)
\* the loop of bfs: the nodes in the order f is called on them
BfsFrom(tree, curr_layer) ==
    IF curr_layer = <<>> THEN <<>>
    ELSE curr_layer \o BfsFrom(tree, NextLayer(tree, curr_layer))

\* bfs(node, f)
Bfs(tree, node) == BfsFrom(tree, <<node>>)

\* the closure from_source_file passes to bfs allocates these nodes
IsAllocated(tree, n) == IsModuleItem(tree.kind[n]) \/ IsMacroCall(tree.kind[n])

\* SourceFileItems::from_source_file
FromSourceFile(tree, file_id) ==
    LET order == Bfs(tree, 1)
        items == SelectSeq(order, LAMBDA n : IsAllocated(tree, n))
    IN [file_id |-> file_id,
        arena |-> [i \in 1..Len(items) |-> SyntaxNodePtr(tree, items[i])]]

\* the outcome of a call: the value it returned, or the panic it ended in
Ok(v) == [ok |-> TRUE, val |-> v, err |-> "none"]
Panic(msg) == [ok |-> FALSE, val |-> 0, err |-> msg]

\* SourceFileItems::id_of_unchecked: the first id whose pointer names the node
IdOfUnchecked(table, ptr) ==
    IF \E id \in 1..Len(table.arena) : table.arena[id] = ptr
    THEN Ok(CHOOSE id \in 1..Len(table.arena) :
               /\ table.arena[id] = ptr
               /\ \A j \in 1..(id - 1) : table.arena[j] # ptr)
    ELSE Panic("Can't find node in SourceFileItems")

\* an id_of without the assertion on the file
IdOfAnyFile(table, file_id, ptr) == IdOfUnchecked(table, ptr)

\* SourceFileItems::id_of: asserts that the table is the one of file_id
IdOf(table, file_id, ptr) ==
    IF table.file_id # file_id THEN Panic("SourceFileItems: wrong file")
    ELSE IdOfUnchecked(table, ptr)

\* Index<SourceFileItemId> for SourceFileItems: None where the arena has no such
\* index and the indexing panics
Index(table, idx) == IF idx \in 1..Len(table.arena) THEN Some(table.arena[idx]) ELSE None

\* the pointer resolved in the tree
PtrToNode(ptr, tree) ==
    IF IsNone(ToNode(ptr, tree)) THEN Panic("can't resolve local ptr to SyntaxNode")
    ELSE Ok(Unwrap(ToNode(ptr, tree)))

\* self[idx].to_node(&source_file)
IndexToNode(table, idx, tree) ==
    IF IsNone(Index(table, idx)) THEN Panic("index out of bounds")
    ELSE PtrToNode(Unwrap(Index(table, idx)), tree)

\* SourceFileItems::file_item_query
FileItemQuery(trees, tables, source_item_id) ==
    IndexToNode(tables[source_item_id.file_id.id], source_item_id.item_id,
                trees[source_item_id.file_id.id])

\* the tree with a new leaf of `kind` as child number pos + 1 of parent
InsertNode(tree, parent, pos, kind) ==
    Tree(Append(tree.kind, kind),
         Append([tree.children EXCEPT ![parent] =
                    SubSeq(@, 1, pos) \o <<Len(tree.kind) + 1>> \o SubSeq(@, pos + 1, Len(@))],
                <<>>))

\* the kinds of the nodes below the SourceFile node
NodeKinds == {"FnDef", "ItemList", "MacroCall"}

\* the children of node p, given the parent of every node but the first
ChildrenOf(par, p) == SelectSeq([i \in 1..Len(par) |-> i], LAMBDA c : c > 1 /\ par[c] = p)

\* the trees of n nodes below the SourceFile node
TreesOf(n) ==
    { Tree([i \in 1..(n + 1) |-> IF i = 1 THEN "SourceFile" ELSE kinds[i]],
           [p \in 1..(n + 1) |-> ChildrenOf(par, p)]) :
        par \in {f \in [1..(n + 1) -> 0..n] : f[1] = 0 /\ \A c \in 2..(n + 1) : f[c] \in 1..(c - 1)},
        kinds \in [1..(n + 1) -> NodeKinds] }

Trees == UNION {TreesOf(n) : n \in 0..MaxNodes}

\* a second file: `fn f() {} m!();`
OtherTree == Tree(<<"SourceFile", "FnDef", "MacroCall">>, <<<<2, 3>>, <<>>, <<>>>>)

\* file_items_query for every file
FileItemsOf(trees) == [f \in 1..Len(trees) |-> FromSourceFile(trees[f], RealFile(f))]

SlotsInit ==
    /\ files = <<>>
    /\ deps = <<>>
    /\ def_map = EmptyDefMap
    /\ col = InitCollector
    /\ interner = EmptyInterner
    /\ stack = <<>>
    /\ pc = "slots"
    /\ loop = InitLoop
    /\ \E tree \in Trees : source_file = <<tree, OtherTree>>
    /\ file_items = FileItemsOf(source_file)
    /\ hist = [inserted |-> <<>>, old |-> <<>>, last |-> <<>>]

\* the state after the first file became `tree` and its items were allocated anew
Reallocated(tree, new) ==
    /\ source_file' = [source_file EXCEPT ![1] = tree]
    /\ file_items' = FileItemsOf([source_file EXCEPT ![1] = tree])
    /\ hist' = [inserted |-> Append(hist.inserted, new), old |-> <<file_items[1]>>,
                last |-> <<>>]

\* the edit of a session inserts an item or a macro call into the first file,
\* and file_items_query runs again
InsertItem ==
    /\ pc = "slots"
    /\ hist.inserted = <<>>
    /\ \E parent \in Nodes(source_file[1]) :
          \E pos \in 0..Len(source_file[1].children[parent]) :
             \E kind \in {"FnDef", "MacroCall"} :
                Reallocated(InsertNode(source_file[1], parent, pos, kind),
                            Len(source_file[1].kind) + 1)
    /\ UNCHANGED <<files, deps, def_map, col, interner, stack, pc, loop>>

\* the state after a query on the table of file t for file f returned res
Queried(op, t, f, arg, res) ==
    /\ hist' = [hist EXCEPT !.last = <<[op |-> op, table |-> t, file |-> f, arg |-> arg,
                                        res |-> res]>>]
    /\ UNCHANGED <<files, deps, def_map, col, interner, stack, pc, loop, source_file,
                   file_items>>

\* items.id_of(file_id, node), for the table of a file t and a node of file f
LookUp ==
    /\ pc = "slots"
    /\ hist.inserted = <<>>
    /\ \E t \in 1..Len(file_items) : \E f \in 1..Len(source_file) :
          \E n \in Nodes(source_file[f]) :
             Queried("id_of", t, f, n,
                     IdOf(file_items[t], RealFile(f), SyntaxNodePtr(source_file[f], n)))

\* items[idx].to_node(&source_file), for the table of a file t and the tree of
\* a file f; file_item_query makes this call with t = f
Resolve ==
    /\ pc = "slots"
    /\ hist.inserted = <<>>
    /\ \E t \in 1..Len(file_items) : \E f \in 1..Len(source_file) :
          \E idx \in 1..(Len(file_items[t].arena) + 1) :
             Queried("index", t, f, idx, IndexToNode(file_items[t], idx, source_file[f]))

SlotsNext ==
    \/ InsertItem
    \/ LookUp
    \/ Resolve

SpecSlots == SlotsInit /\ [][SlotsNext]_vars

(***************************************************************************)
(* HirFileId::hir_parse: the syntax of a file, as the raw items it lowers  *)
(* to; `failed` where the query panics instead of returning                *)
(***************************************************************************)
Parsed(items) == [failed |-> FALSE, items |-> items]
ParseFailed == [failed |-> TRUE, items |-> <<>>]

\* SourceFile::parse("")
EmptySourceFile == Parsed(<<>>)

\* ast::MacroCall::cast(&db.file_item(source_item_id)): the invocation with that
\* item id in its parsed file; None where there is none and the unwrap panics
MacroCallAt(parsed, item_id) ==
    IF parsed.failed
       \/ ~\E i \in 1..Len(FlattenItems(parsed.items)) :
               /\ FlattenItems(parsed.items)[i].k = "Macro"
               /\ FlattenItems(parsed.items)[i].sid = item_id
    THEN None
    ELSE Some(FlattenItems(parsed.items)[
                 CHOOSE i \in 1..Len(FlattenItems(parsed.items)) :
                    /\ FlattenItems(parsed.items)[i].k = "Macro"
                    /\ FlattenItems(parsed.items)[i].sid = item_id])

\* macro_call.token_tree().and_then(mbe::ast_to_token_tree)
TokenTreeOf(mac) == IF mac.arg = "no_tt" THEN None ELSE Some(mac.arg)

\* CrateDefMap::resolve_macro
ResolveMacro(dm, macro_call_id) ==
    IF macro_call_id \in DOMAIN dm.macro_resolutions
    THEN Some(dm.macro_resolutions[macro_call_id]) ELSE None

\* parse_macro, once the syntax of the invocation is at hand
ParseMacroCall(dm, mac, macro_call_id) ==
    IF IsNone(TokenTreeOf(mac)) THEN None
    ELSE IF IsNone(ResolveMacro(dm, macro_call_id)) THEN None
    ELSE Expand(RulesOf(dm, Unwrap(ResolveMacro(dm, macro_call_id))), Unwrap(TokenTreeOf(mac)))

\* a hir_parse that unwraps the result of parse_macro
OrPanic(r) == IF IsNone(r) THEN ParseFailed ELSE Parsed(Unwrap(r))

\* parse_macro(..).unwrap_or_else(|| SourceFile::parse(""))
OrEmpty(r) == IF IsNone(r) THEN EmptySourceFile ELSE Parsed(Unwrap(r))

\* parse_macro for the invocation `call` found at the location of macro_call_id
ParseMacro(dm, call, macro_call_id) ==
    IF IsNone(call) THEN ParseFailed
    ELSE OrEmpty(ParseMacroCall(dm, Unwrap(call), macro_call_id))

RECURSIVE HirParse(_, _, _, _)
\* HirFileId::hir_parse
HirParse(dm, int, fs, file_id) ==
    IF ~file_id.macro THEN Parsed(fs[file_id.id].items)
    ELSE ParseMacro(dm,
                    MacroCallAt(HirParse(dm, int, fs, MacroCallLocOf(int, file_id.id).raw.file_id),
                                MacroCallLocOf(int, file_id.id).raw.item_id),
                    file_id.id)

(***************************************************************************)
(* Incremental re-parsing of one token (ra_syntax reparsing.rs). A text is *)
(* a sequence of characters, offsets count from 0, and a syntax tree is    *)
(* kept as the sequence of its leaves.                                     *)
(***************************************************************************)
MaxText == 4
MaxInsert == 1

\* the characters of the texts: two letters, `#`, `"` and a blank
Chars == {"r", "a", "#", "\"", " "}
Letters == {"a", "b", "r"}

TextRange(start, end) == [start |-> start, end |-> end]
AtomTextEdit(delete, insert) == [delete |-> delete, insert |-> insert]

\* AtomTextEdit::apply
ApplyEdit(edit, text) ==
    SubSeq(text, 1, edit.delete.start) \o edit.insert
       \o SubSeq(text, edit.delete.end + 1, Len(text))

\* Ptr::nth: the character at offset i of the text, None past its end
CharAt(text, i) == IF i + 1 \in 1..Len(text) THEN Some(text[i + 1]) ELSE None

\* Ptr::bump_while: the offset of the first character from i on that is not in S
BumpWhile(text, i, S) ==
    CHOOSE j \in i..Len(text) :
       /\ \A k \in i..(j - 1) : text[k + 1] \in S
       /\ j < Len(text) => text[j + 1] \notin S

\* lexer::strings::is_string_literal_start
IsStringLiteralStart(c, c1, c2) ==
    \/ c = "r" /\ c1 = Some("\"")
    \/ c = "r" /\ c1 = Some("#") /\ c2 \in {Some("\""), Some("#")}
    \/ c = "b" /\ c1 \in {Some("\""), Some("'")}
    \/ c = "b" /\ c1 = Some("r") /\ c2 \in {Some("\""), Some("#")}

\* lexer::scan_literal_suffix
ScanLiteralSuffix(text, i) == BumpWhile(text, i, Letters)

\* lexer::strings::scan_string, from behind the opening quote
ScanString(text, i) ==
    IF \E j \in i..(Len(text) - 1) : text[j + 1] = "\""
    THEN 1 + CHOOSE j \in i..(Len(text) - 1) :
                /\ text[j + 1] = "\""
                /\ \A k \in i..(j - 1) : text[k + 1] # "\""
    ELSE Len(text)

\* a quote at offset j closes a raw string of `hashes` hashes
ClosesRawString(text, j, hashes) ==
    /\ text[j + 1] = "\""
    /\ \A k \in 1..hashes : CharAt(text, j + k) = Some("#")

\* the rest of scan_raw_string, from behind the opening quote
ScanRawStringBody(text, i, hashes) ==
    IF \E j \in i..(Len(text) - 1) : ClosesRawString(text, j, hashes)
    THEN 1 + hashes + CHOOSE j \in i..(Len(text) - 1) :
                         /\ ClosesRawString(text, j, hashes)
                         /\ \A k \in i..(j - 1) : ~ClosesRawString(text, k, hashes)
    ELSE Len(text)

\* lexer::strings::scan_raw_string, from behind the `r`
ScanRawString(text, i) ==
    IF CharAt(text, BumpWhile(text, i, {"#"})) # Some("\"")
    THEN BumpWhile(text, i, {"#"})
    ELSE ScanRawStringBody(text, BumpWhile(text, i, {"#"}) + 1,
                           BumpWhile(text, i, {"#"}) - i)

Token(kind, end) == [kind |-> kind, end |-> end]

\* lexer::next_token_inner for the character at offset i: the kind of the token
\* and the offset of its end
NextToken(text, i) ==
    IF text[i + 1] = " " THEN Token("WHITESPACE", BumpWhile(text, i + 1, {" "}))
    ELSE IF /\ text[i + 1] \in Letters
            /\ ~IsStringLiteralStart(text[i + 1], CharAt(text, i + 1), CharAt(text, i + 2))
    THEN Token("IDENT", BumpWhile(text, i + 1, Letters))
    ELSE IF text[i + 1] = "#" THEN Token("POUND", i + 1)
    ELSE IF text[i + 1] = "\""
    THEN Token("STRING", ScanLiteralSuffix(text, ScanString(text, i + 1)))
    ELSE IF text[i + 1] = "r"
    THEN Token("RAW_STRING", ScanLiteralSuffix(text, ScanRawString(text, i + 1)))
    ELSE Token("ERROR", i + 1)

\* a leaf of the tree
Leaf(kind, text) == [kind |-> kind, text |-> text]

RECURSIVE TokenizeFrom(_, _)
TokenizeFrom(text, i) ==
    IF i >= Len(text) THEN <<>>
    ELSE <<Leaf(NextToken(text, i).kind, SubSeq(text, i + 1, NextToken(text, i).end))>>
            \o TokenizeFrom(text, NextToken(text, i).end)

\* lexer::tokenize
Tokenize(text) == TokenizeFrom(text, 0)

RECURSIVE TextOf(_)
\* SyntaxNode::text of the root
TextOf(leaves) == IF leaves = <<>> THEN <<>> ELSE Head(leaves).text \o TextOf(Tail(leaves))

\* SyntaxNode::range of leaf k
RangeOf(leaves, k) ==
    TextRange(Len(TextOf(SubSeq(leaves, 1, k - 1))), Len(TextOf(SubSeq(leaves, 1, k))))

IsSubrange(r, of) == of.start <= r.start /\ r.end <= of.end

\* algo::find_covering_node: the first leaf whose range contains the range, None
\* where the covering node is not a leaf
FindCoveringNode(leaves, range) ==
    IF \E k \in 1..Len(leaves) : IsSubrange(range, RangeOf(leaves, k))
    THEN Some(CHOOSE k \in 1..Len(leaves) :
                 /\ IsSubrange(range, RangeOf(leaves, k))
                 /\ \A j \in 1..(k - 1) : ~IsSubrange(range, RangeOf(leaves, j)))
    ELSE None

\* get_text_after_edit
GetTextAfterEdit(leaves, node, edit) ==
    ApplyEdit(AtomTextEdit(TextRange(edit.delete.start - RangeOf(leaves, node).start,
                                     edit.delete.end - RangeOf(leaves, node).start),
                           edit.insert),
              leaves[node].text)

\* is_contextual_kw
IsContextualKw(text) ==
    text \in {<<"a", "u", "t", "o">>, <<"d", "e", "f", "a", "u", "l", "t">>,
              <<"u", "n", "i", "o", "n">>}

\* the deleted part of the node has a new line
DeletesNewLine(leaves, node, edit) ==
    \E k \in (edit.delete.start - RangeOf(leaves, node).start + 1)
                ..(edit.delete.end - RangeOf(leaves, node).start) :
       leaves[node].text[k] = "\n"

\* the token after the edit, with the character behind the node, is one token
ExtendsIntoNext(leaves, node, text) ==
    /\ IsSome(CharAt(TextOf(leaves), RangeOf(leaves, node).end))
    /\ Len(Tokenize(Append(text, Unwrap(CharAt(TextOf(leaves), RangeOf(leaves, node).end))))) = 1

\* reparse_leaf, once the covering node is known to be a leaf of the tree
ReparseLeafAt(leaves, node, edit) ==
    IF leaves[node].kind \notin {"WHITESPACE", "COMMENT", "IDENT", "STRING", "RAW_STRING"}
    THEN None
    ELSE IF /\ leaves[node].kind \in {"WHITESPACE", "COMMENT"}
            /\ DeletesNewLine(leaves, node, edit)
    THEN None
    ELSE IF \/ Len(Tokenize(GetTextAfterEdit(leaves, node, edit))) # 1
            \/ Tokenize(GetTextAfterEdit(leaves, node, edit))[1].kind # leaves[node].kind
    THEN None
    ELSE IF /\ leaves[node].kind = "IDENT"
            /\ IsContextualKw(GetTextAfterEdit(leaves, node, edit))
    THEN None
    ELSE IF ExtendsIntoNext(leaves, node, GetTextAfterEdit(leaves, node, edit))
    THEN None
    ELSE Some([node |-> node,
               green |-> Leaf(leaves[node].kind, GetTextAfterEdit(leaves, node, edit))])

\* reparse_leaf: the node to replace and the new leaf, or None
ReparseLeaf(leaves, edit) ==
    IF IsNone(FindCoveringNode(leaves, edit.delete)) THEN None
    ELSE ReparseLeafAt(leaves, Unwrap(FindCoveringNode(leaves, edit.delete)), edit)

\* node.replace_with(green)
ReplaceWith(leaves, node, green) == [leaves EXCEPT ![node] = green]

\* the texts and the edits of a session
Texts == SeqsUpTo(Chars, MaxText)
Edits(text) ==
    { AtomTextEdit(TextRange(s, e), ins) :
        s \in 0..Len(text), e \in 0..Len(text), ins \in SeqsUpTo(Chars, MaxInsert) }

\* SourceFile::parse of a text, as far as its leaves
ReparseInit ==
    /\ files = <<>>
    /\ deps = <<>>
    /\ def_map = EmptyDefMap
    /\ col = InitCollector
    /\ interner = EmptyInterner
    /\ stack = <<>>
    /\ pc = "reparse"
    /\ loop = InitLoop
    /\ \E text \in Texts : source_file = <<Tokenize(text)>>
    /\ file_items = <<>>
    /\ hist = [edit |-> <<>>, before |-> <<>>, reparsed |-> FALSE]

\* the state after the edit was handled
Edited(edit, leaves, reparsed) ==
    /\ source_file' = <<leaves>>
    /\ hist' = [edit |-> <<edit>>, before |-> source_file, reparsed |-> reparsed]
    /\ UNCHANGED <<files, deps, def_map, col, interner, stack, pc, loop, file_items>>

\* incremental_reparse where reparse_leaf succeeds: the new leaf replaces the node
ReparseLeafSucceeds ==
    /\ pc = "reparse"
    /\ hist.edit = <<>>
    /\ \E edit \in Edits(TextOf(source_file[1])) :
          /\ edit.delete.start <= edit.delete.end
          /\ IsSome(ReparseLeaf(source_file[1], edit))
          /\ Edited(edit,
                    ReplaceWith(source_file[1], Unwrap(ReparseLeaf(source_file[1], edit)).node,
                                Unwrap(ReparseLeaf(source_file[1], edit)).green),
                    TRUE)

\* reparse_leaf declines the edit and the text after the edit is parsed
ReparseLeafDeclines ==
    /\ pc = "reparse"
    /\ hist.edit = <<>>
    /\ \E edit \in Edits(TextOf(source_file[1])) :
          /\ edit.delete.start <= edit.delete.end
          /\ IsNone(ReparseLeaf(source_file[1], edit))
          /\ Edited(edit, Tokenize(ApplyEdit(edit, TextOf(source_file[1]))), FALSE)

ReparseNext ==
    \/ ReparseLeafSucceeds
    \/ ReparseLeafDeclines

SpecReparse == ReparseInit /\ [][ReparseNext]_vars

(***************************************************************************)
(* Properties                                                              *)
(***************************************************************************)
ModuleIds == 1..Len(def_map.modules)
ScopeAt(m) == def_map.modules[m].scope
Finished == pc = "done"

\* every slot that is filled before a step holds the same definition after it
FilledSlotsKept ==
    \A m \in ModuleIds : \A n \in DOMAIN ScopeAt(m) :
        /\ m \in 1..Len(def_map'.modules)
        /\ n \in DOMAIN def_map'.modules[m].scope
        /\ IsSome(ScopeAt(m)[n].def.types)
              => def_map'.modules[m].scope[n].def.types = ScopeAt(m)[n].def.types
        /\ IsSome(ScopeAt(m)[n].def.values)
              => def_map'.modules[m].scope[n].def.values = ScopeAt(m)[n].def.values

\* C1: in every module scope, a filled type-namespace or value-namespace slot of
\* a name is never changed by a later update (direct definition, named import,
\* glob copy or glob propagation): every step of the pass leaves every filled
\* slot as it was, and so can only fill slots that were empty.
C1_FilledSlotNeverOverwritten == [][FilledSlotsKept]_vars

\* C1 witness: the pass finished with a name whose type slot holds the trait
\* the module defines and whose value slot holds an enum variant: the glob
\* import of the enum offered the variant to both slots of the name, the filled
\* type slot kept the trait and the empty value slot took the variant.
C1_Witness ==
    /\ Finished
    /\ \E m \in ModuleIds : \E n \in DOMAIN ScopeAt(m) :
          /\ IsSome(ScopeAt(m)[n].def.types)
          /\ IsSome(ScopeAt(m)[n].def.values)
          /\ Unwrap(ScopeAt(m)[n].def.types).kind = "Trait"
          /\ Unwrap(ScopeAt(m)[n].def.values).kind = "EnumVariant"

\* the items of the inline module `name` of the crate root, <<>> if there is none
InlineItems(name) ==
    LET root == files[RootFile].items
        at == {i \in 1..Len(root) :
                 root[i].k = "Module" /\ ~root[i].decl /\ root[i].name = name}
    IN IF at = {} THEN <<>> ELSE root[CHOOSE i \in at : TRUE].items

\* the module the crate root binds as its child `name`
ChildOfRoot(name) == def_map.modules[def_map.root].children[name]

IsGlobOf(item, path) ==
    /\ item.k = "Import"
    /\ item.data.is_glob
    /\ ~item.data.is_prelude
    /\ item.data.path = path

\* module x of the root declares `use super::y::*;`
GlobImports(x, y) ==
    \E i \in 1..Len(InlineItems(x)) : IsGlobOf(InlineItems(x)[i], PathOf("Super", <<y>>))

\* an item of module x other than `use super::y::*;` that can bind the name n
OtherSource(x, y, n) ==
    \E i \in 1..Len(InlineItems(x)) :
        LET item == InlineItems(x)[i]
        IN CASE item.k = "Def" -> item.name = n
             [] item.k = "Module" -> item.name = n
             [] item.k = "Macro" -> TRUE
             [] item.k = "Import" ->
                  IF item.data.is_glob THEN ~IsGlobOf(item, PathOf("Super", <<y>>))
                  ELSE ImportName(item.data) = n

Bound(r) == IsSome(r.def.types) \/ IsSome(r.def.values)

\* every name bound in y is bound in x, slot by slot, and with y's definitions
\* where x has no other source for the name
GlobVisible(x, y) ==
    \A n \in DOMAIN ScopeAt(ChildOfRoot(y)) :
        Bound(ScopeAt(ChildOfRoot(y))[n]) =>
            /\ n \in DOMAIN ScopeAt(ChildOfRoot(x))
            /\ IsSome(ScopeAt(ChildOfRoot(y))[n].def.types)
                  => IsSome(ScopeAt(ChildOfRoot(x))[n].def.types)
            /\ IsSome(ScopeAt(ChildOfRoot(y))[n].def.values)
                  => IsSome(ScopeAt(ChildOfRoot(x))[n].def.values)
            /\ ~OtherSource(x, y, n)
                  => ScopeAt(ChildOfRoot(x))[n].def = ScopeAt(ChildOfRoot(y))[n].def

\* C2: if module A glob-imports module B of the same package, then when the
\* pass has finished every name bound in B's scope is bound in A's scope, in
\* each namespace B binds it in, whether B received the binding before or after
\* A's glob import was applied; and where A has no other source for the name,
\* A's slots hold the same definitions as B's.
C2_GlobImportSeesEveryBinding ==
    Finished =>
        \A x \in {"a", "b"} : \A y \in {"a", "b"} :
            GlobImports(x, y) => GlobVisible(x, y)

\* C2 witness: module a is `use super::b::*;` alone; b binds f by a definition
\* (before a's glob import is applied) and df by an import applied after a's
\* glob import in the same round; the pass finished with both in a's scope.
C2_Witness ==
    /\ Finished
    /\ GlobImports("a", "b")
    /\ Len(InlineItems("a")) = 1
    /\ \E i \in 1..Len(hist.applied) : \E j \in (i + 1)..Len(hist.applied) :
          /\ hist.applied[i].module_id = ChildOfRoot("a")
          /\ hist.applied[j].module_id = ChildOfRoot("b")
          /\ ~hist.applied[j].empty
    /\ {"f", "df"} \subseteq DOMAIN ScopeAt(ChildOfRoot("b"))
    /\ {"f", "df"} \subseteq DOMAIN ScopeAt(ChildOfRoot("a"))
    /\ IsSome(ScopeAt(ChildOfRoot("a"))["f"].def.values)
    /\ IsSome(ScopeAt(ChildOfRoot("a"))["df"].def.values)

LoopEnded == pc \in {"finalize", "final", "done"}

\* the imports queued and the macro invocations interned during the pass
Collected == hist.queued + Len(interner.macros)

\* C3 as the specification states it: for any finite input whose cross-package
\* dependencies are acyclic, the main loop ends by convergence, in fewer than
\* 1000 rounds.
C3_ConvergesBelowCap == LoopEnded => hist.exit = "converged" /\ hist.rounds < RoundCap

\* C3, amended: every round with progress takes an import out of the queue or
\* empties the macro queue of invocations no earlier round saw, so the loop runs
\* at most one round more than the imports and invocations the pass collects;
\* it ends by convergence, below the cap, whenever that number is below the
\* cap, and otherwise (a macro whose expansion invokes it again) it may run
\* into the cap.
C3_ConvergesUnlessWorkReachesCap ==
    LoopEnded =>
        /\ hist.rounds <= Collected + 1
        /\ Collected + 1 < RoundCap => hist.exit = "converged" /\ hist.rounds < RoundCap

\* C3 witness: a pass that converged in its third round, after two rounds that
\* each expanded a macro of the dependency.
C3_Witness ==
    /\ Finished
    /\ hist.exit = "converged"
    /\ hist.rounds = 3
    /\ Len(interner.macros) = 2
    /\ Cardinality(DOMAIN def_map.macro_resolutions) = 2

\* the pass was cut short: the call stack of the nested collect calls overflowed
\* or update_recursive panicked
Aborted == pc \in {"overflow", "panic"}

\* C4: a collection pass, once started, always runs to completion, also when a
\* macro expansion produces further macro invocations, of textually scoped
\* macros expanded at collection time as well as of cross-package macros
\* expanded in the loop: the pass is never cut short.
C4_PassRunsToCompletion == ~Aborted

\* the imports the pass applied at finalization
AppliedAtFinalization == {i \in 1..Len(hist.applied) : hist.applied[i].final}

\* C5: the main loop executes at most 1000 rounds that report progress; when
\* the 1000th is reached without convergence the loop is left, finalization
\* runs (the imports still queued are applied with an empty resolution and the
\* queue is emptied) and the pass ends normally, without a failure.
C5_CapEndsLoopAndFinalizes ==
    /\ loop.i <= RoundCap
    /\ hist.exit = "cap" =>
          /\ loop.i = RoundCap
          /\ pc \in {"finalize", "final", "done"}
    /\ (hist.exit = "cap" /\ Finished) =>
          /\ col.unresolved_imports = <<>>
          /\ \A q \in 1..hist.queued : \E i \in 1..Len(hist.applied) : hist.applied[i].qid = q
          /\ \A i \in AppliedAtFinalization :
                /\ hist.applied[i].empty
                /\ hist.applied[i].round = RoundCap

\* C5 witness: the pass finished after the loop ran into the cap with an import
\* still queued, which finalization applied with an empty resolution.
C5_Witness ==
    /\ Finished
    /\ hist.exit = "cap"
    /\ loop.i = RoundCap
    /\ AppliedAtFinalization # {}
    /\ \E n \in DOMAIN ScopeAt(def_map.root) :
          /\ ~Bound(ScopeAt(def_map.root)[n])
          /\ IsSome(ScopeAt(def_map.root)[n].import)

\* the problems recorded at the item `at`
ProblemsAt(at) == SelectSeq(def_map.problems, LAMBDA p : p.at = at)

\* the modules of the arena declared by the item `at`
DeclaredBy(at) == {m \in ModuleIds : def_map.modules[m].declaration = Some(at)}

\* the candidate files of the declaration d of the history, as resolve_submodule
\* computes them
CandidatesOf(d) ==
    SubmoduleCandidates(files, interner, d.at.file_id, d.name,
                        IsNone(def_map.modules[d.parent].parent))

\* what the pass leaves of a declaration none of whose candidates exists
AbsentModule(d) ==
    /\ DeclaredBy(d.at) = {}
    /\ d.name \notin DOMAIN def_map.modules[d.parent].children
    /\ d.name \notin DOMAIN ScopeAt(d.parent)
    /\ Len(ProblemsAt(d.at)) = 1
    /\ ProblemsAt(d.at)[1].problem.kind = "UnresolvedModule"
    /\ ProblemsAt(d.at)[1].problem.candidate = CandidatesOf(d)[1]
    /\ (d.parent = def_map.root /\ d.at.file_id = RealFile(RootFile))
          => ProblemsAt(d.at)[1].problem.candidate = RelPath(<<>>, d.name)

\* what the pass leaves of a declaration with an existing candidate (the entry
\* of the children map may belong to a later module of the same name)
PresentModule(d) ==
    /\ ProblemsAt(d.at) = <<>>
    /\ Cardinality(DeclaredBy(d.at)) = 1
    /\ d.name \in DOMAIN def_map.modules[d.parent].children
    /\ \A m \in DeclaredBy(d.at) : def_map.modules[m].parent = Some(d.parent)

\* C6: for a `mod name;` declaration none of whose candidate files exists the
\* pass creates no child module (no arena entry, no entry in the parent's
\* children, no binding of the name in the parent's scope) and records exactly
\* one unresolved-module problem at the declaration, with the first candidate
\* as its path (`name.rs` beside the root for a declaration in the package
\* root); for a declaration with an existing candidate it records no problem.
C6_UnresolvedModuleIsAbsentWithOneProblem ==
    \A i \in 1..Len(hist.declared) :
        IF \A k \in 1..Len(CandidatesOf(hist.declared[i])) :
               IsNone(FileAt(files, CandidatesOf(hist.declared[i])[k]))
        THEN AbsentModule(hist.declared[i])
        ELSE PresentModule(hist.declared[i])

\* C6 witness: the pass finished after a `mod sub;` of the root found its file
\* and the `mod inner;` inside it, which has two candidates, found none.
C6_Witness ==
    /\ Finished
    /\ \E i \in 1..Len(hist.declared) : \E j \in 1..Len(hist.declared) :
          /\ hist.declared[i].parent = def_map.root
          /\ DeclaredBy(hist.declared[i].at) # {}
          /\ hist.declared[j].parent \in DeclaredBy(hist.declared[i].at)
          /\ Len(CandidatesOf(hist.declared[j])) = 2
          /\ Len(ProblemsAt(hist.declared[j].at)) = 1

\* the resolved import the next step of the `for ... in resolved` loop applies
NextApplied == Head(loop.resolved)

\* the next step applies a glob import whose type-namespace target is an enum
AppliesEnumGlob ==
    /\ pc = "record"
    /\ loop.resolved # <<>>
    /\ NextApplied.data.is_glob
    /\ IsSome(NextApplied.def.types)
    /\ Unwrap(NextApplied.def.types).kind = "Enum"

\* slot `old` after it was offered the definition d
Offered(old, d) == IF IsSome(old) THEN old ELSE Some(d)

\* after the step, the scope of module m binds the name of every named variant
\* of enum e, in both namespaces: to the variant, or to what the slot held before
VariantsBound(m, e, variants) ==
    \A i \in 1..Len(variants) :
        IsSome(variants[i]) =>
            /\ Unwrap(variants[i]) \in DOMAIN def_map'.modules[m].scope
            /\ def_map'.modules[m].scope[Unwrap(variants[i])].def.types
                  = Offered(EntryOrDefault(ScopeAt(m), Unwrap(variants[i])).def.types,
                            VariantOf(e, i))
            /\ def_map'.modules[m].scope[Unwrap(variants[i])].def.values
                  = Offered(EntryOrDefault(ScopeAt(m), Unwrap(variants[i])).def.values,
                            VariantOf(e, i))

EnumGlobBindsVariants ==
    AppliesEnumGlob =>
        VariantsBound(NextApplied.module_id, Unwrap(NextApplied.def.types),
                      EnumVariants(files, interner, Unwrap(NextApplied.def.types)))

\* C7: when a glob import's type-namespace target is an enum, then after the
\* import is applied the importing module's scope binds the name of every named
\* variant of the enum, with the type slot and the value slot both holding that
\* variant, except for a slot that was filled before, which keeps what it held.
C7_EnumGlobBindsVariantsInBothNamespaces == [][EnumGlobBindsVariants]_vars

\* C7 witness: a glob import of the enum E (variants X, a nameless one, Y) has
\* been applied to module a, which binds X and Y to the first and the third
\* variant of E in both namespaces.
C7_Witness ==
    /\ Finished
    /\ "a" \in DOMAIN def_map.modules[def_map.root].children
    /\ \E k \in 1..Len(hist.applied) :
          hist.applied[k].module_id = ChildOfRoot("a") /\ ~hist.applied[k].final
    /\ {"X", "Y"} \subseteq DOMAIN ScopeAt(ChildOfRoot("a"))
    /\ \E e \in 1..Len(interner.enums) :
          /\ ScopeAt(ChildOfRoot("a"))["X"].def
                = PerNsBoth(VariantOf(ItemDef("Enum", e), 1), VariantOf(ItemDef("Enum", e), 1))
          /\ ScopeAt(ChildOfRoot("a"))["Y"].def
                = PerNsBoth(VariantOf(ItemDef("Enum", e), 3), VariantOf(ItemDef("Enum", e), 3))

\* the raw items of a file: of a source file, or of the expansion of a macro call
ItemsOfFile(file_id) ==
    IF ~file_id.macro THEN FlattenItems(files[file_id.id].items)
    ELSE IF file_id.id \in DOMAIN def_map.macro_resolutions
    THEN Template(RulesOf(def_map, def_map.macro_resolutions[file_id.id]))
    ELSE <<>>

\* the macro invocation interned as macro call c
InvocationAt(c) ==
    SelectSeq(ItemsOfFile(interner.macros[c].raw.file_id),
              LAMBDA item : item.k = "Macro" /\ item.sid = interner.macros[c].raw.item_id)[1]

\* the external-package prelude as seeded from the dependencies
SeededPrelude == SeedDeps(EmptyDefMap, deps).extern_prelude

\* the crate the package name of invocation c is seeded to
KrateOf(c) == SeededPrelude[InvocationAt(c).path.segments[1]].krate

\* the public macro of that crate the invocation names
PublicMacroOf(c) ==
    MacroDefId(KrateOf(c), CrateDefMapOf(KrateOf(c)).public_macros[InvocationAt(c).path.segments[2]])

\* macro call c is `pkg::name!(..)`, pkg is a dependency whose public macros
\* include name, and the expansion succeeds
ExpandsPublicMacro(c) ==
    /\ InvocationAt(c).path.kind = "Plain"
    /\ Len(InvocationAt(c).path.segments) = 2
    /\ InvocationAt(c).path.segments[1] \in DOMAIN SeededPrelude
    /\ InvocationAt(c).path.segments[2] \in DOMAIN CrateDefMapOf(KrateOf(c)).public_macros
    /\ IsSome(Expand(RulesOf(def_map, PublicMacroOf(c)), InvocationAt(c).arg))

\* the function items of the expansion of invocation c
ExpandedFns(c) ==
    SelectSeq(Unwrap(Expand(RulesOf(def_map, PublicMacroOf(c)), InvocationAt(c).arg)),
              LAMBDA item : item.k = "Def" /\ item.kind = "Function")

\* the location of item g of the pseudo-file of invocation c
ExpandedLoc(c, g) == ItemLoc(interner.macros[c].module, SourceItemId(MacroFile(c), g.sid))

\* the function ids interned for that location
FnIdsAt(c, g) == {id \in 1..Len(interner.fns) : interner.fns[id] = ExpandedLoc(c, g)}

ResolutionRecorded(c) ==
    /\ c \in DOMAIN def_map.macro_resolutions
    /\ def_map.macro_resolutions[c] = PublicMacroOf(c)

\* g is bound in the invoking module's value namespace to the function interned
\* for its location in the pseudo-file
BoundToExpandedFn(c, g) ==
    /\ g.name \in DOMAIN ScopeAt(interner.macros[c].module.module_id)
    /\ \E id \in FnIdsAt(c, g) :
          ScopeAt(interner.macros[c].module.module_id)[g.name].def.values
             = Some(ItemDef("Function", id))

\* g's function id is interned and its name has a filled value slot
InternedAndBound(c, g) ==
    /\ FnIdsAt(c, g) # {}
    /\ g.name \in DOMAIN ScopeAt(interner.macros[c].module.module_id)
    /\ IsSome(ScopeAt(interner.macros[c].module.module_id)[g.name].def.values)

Converged == Finished /\ hist.exit = "converged"

ExpansionRecordedAndFnBound ==
    Converged =>
        \A c \in 1..Len(interner.macros) :
            ExpandsPublicMacro(c) =>
                /\ ResolutionRecorded(c)
                /\ \A k \in 1..Len(ExpandedFns(c)) : InternedAndBound(c, ExpandedFns(c)[k])

\* the innermost collect call is about to define a function item of a pseudo-file
DefinesExpandedFn ==
    /\ pc = "collect"
    /\ stack # <<>>
    /\ stack[Len(stack)].file_id.macro
    /\ Head(stack[Len(stack)].items).k = "Def"
    /\ Head(stack[Len(stack)].items).kind = "Function"

\* after the step, the value slot of the function's name holds the id interned
\* for (module, location in the pseudo-file), or what it held before
ExpandedFnDefined(frame, g) ==
    /\ g.name \in DOMAIN def_map'.modules[frame.module_id].scope
    /\ \E id \in 1..Len(interner'.fns) :
          /\ interner'.fns[id]
                = ItemLoc(ModuleRef(def_map.krate, frame.module_id),
                          SourceItemId(frame.file_id, g.sid))
          /\ def_map'.modules[frame.module_id].scope[g.name].def.values
                = Offered(EntryOrDefault(ScopeAt(frame.module_id), g.name).def.values,
                          ItemDef("Function", id))

ExpandedFnFillsEmptySlot ==
    DefinesExpandedFn =>
        ExpandedFnDefined(stack[Len(stack)], Head(stack[Len(stack)].items))

UnresolvablePackage(e) == Len(e.path.segments) = 2 /\ IsNone(MacroKrate(def_map, e.path))

\* a macro pass leaves every such invocation in the queue
RetainedStayQueued ==
    pc = "macros" =>
        \A k \in 1..Len(col.unexpanded_macros) :
            UnresolvablePackage(col.unexpanded_macros[k]) =>
                \E j \in 1..Len(col'.unexpanded_macros) :
                    col'.unexpanded_macros[j] = col.unexpanded_macros[k]

\* invocation c is `pkg::name!(..)` and, by the end of the pass, pkg resolves in
\* the external-package prelude to a crate whose public macros include name
ResolvableByTheEnd(c) ==
    /\ InvocationAt(c).path.kind = "Plain"
    /\ Len(InvocationAt(c).path.segments) = 2
    /\ IsSome(MacroKrate(def_map, InvocationAt(c).path))
    /\ InvocationAt(c).path.segments[2]
          \in DOMAIN CrateDefMapOf(Unwrap(MacroKrate(def_map, InvocationAt(c).path))).public_macros
    /\ InvocationAt(c).arg # "nomatch"

\* an invocation whose package became resolvable while the loop was running has
\* been expanded when the loop has converged
ExpandedOnceResolvable ==
    Converged =>
        \A c \in 1..Len(interner.macros) :
            ResolvableByTheEnd(c) => c \in DOMAIN def_map.macro_resolutions

\* C9: a queued two-segment macro invocation whose package name does not
\* resolve in the external-package prelude during a macro pass is still in the
\* unexpanded-macro queue at the start of the next round, and is expanded in a
\* later round if the package name becomes resolvable by then.
C9_UnresolvableInvocationStaysQueued ==
    /\ [][RetainedStayQueued]_vars
    /\ []ExpandedOnceResolvable

\* the applications of the import queued as number q
ApplicationsOf(q) == {i \in 1..Len(hist.applied) : hist.applied[i].qid = q}

\* C10: when the pass has finished, the unresolved-import queue is empty and
\* every import queued during the pass, by the initial walk or by the walk of a
\* macro expansion, has been applied exactly once: in a round of the loop, with
\* the resolution with which it reached its fixed point in that round, or else
\* at finalization, after the last round, with the empty resolution.
C10_EveryImportAppliedExactlyOnce ==
    Finished =>
        /\ col.unresolved_imports = <<>>
        /\ loop.resolved = <<>>
        /\ \A q \in 1..hist.queued : Cardinality(ApplicationsOf(q)) = 1
        /\ \A i \in 1..Len(hist.applied) :
              /\ hist.applied[i].qid \in 1..hist.queued
              /\ hist.applied[i].final =>
                    hist.applied[i].empty /\ hist.applied[i].round = hist.rounds
              /\ ~hist.applied[i].final => hist.applied[i].round < hist.rounds
              /\ \A j \in 1..(i - 1) : hist.applied[j].round <= hist.applied[i].round

\* C10 witness: the pass finished after it applied an import queued by the walk
\* of a macro expansion in the second round, with the crate it resolved to, and
\* an import queued by the initial walk at finalization.
C10_Witness ==
    /\ Finished
    /\ hist.queued = 2
    /\ \E i \in 1..Len(hist.applied) : \E j \in 1..Len(hist.applied) :
          /\ ~hist.applied[i].final
          /\ ~hist.applied[i].empty
          /\ hist.applied[i].round = 1
          /\ \E c \in DOMAIN def_map.macro_resolutions :
                interner.macros[c].module.module_id = hist.applied[i].module_id
          /\ "x" \in DOMAIN def_map.extern_prelude
          /\ hist.applied[j].final
          /\ hist.applied[j].empty

\* the applied imports that bind a name and never resolved: non-glob, with a
\* last path segment, applied with the empty resolution
UnresolvedNamed ==
    {i \in 1..Len(hist.applied) :
        /\ hist.applied[i].empty
        /\ ~hist.applied[i].data.is_glob
        /\ hist.applied[i].data.path.segments # <<>>}

\* the applied non-glob imports that never resolved, a path without segments
\* (`use super as q;`) included
UnresolvedNonGlob ==
    {i \in 1..Len(hist.applied) : hist.applied[i].empty /\ ~hist.applied[i].data.is_glob}

\* the name a non-glob import is to bind, when it has one
BoundNames(data) ==
    IF IsSome(data.alias) THEN {Unwrap(data.alias)}
    ELSE IF data.path.segments # <<>> THEN {data.path.segments[Len(data.path.segments)]}
    ELSE {}

\* C11 as stated: a non-glob import whose path never resolves does not abort the
\* pass and leaves, after the pass, an entry for its bound name (alias or last
\* path segment) in the scope of the importing module with both namespace slots
\* empty; if the name had no earlier entry, the provenance of the entry is the
\* import itself.
C11_UnresolvedImportLeavesEmptyEntry ==
    /\ (UnresolvedNonGlob # {}) => pc # "panic"
    /\ Finished =>
          \A i \in UnresolvedNonGlob : \A n \in BoundNames(hist.applied[i].data) :
             /\ n \in DOMAIN ScopeAt(hist.applied[i].module_id)
             /\ PerNsIsNone(ScopeAt(hist.applied[i].module_id)[n].def)
             /\ hist.applied[i].fresh =>
                   ScopeAt(hist.applied[i].module_id)[n].import
                      = Some(hist.applied[i].import)

\* the pass is about to apply the empty resolution to a non-glob import with a
\* last path segment
AppliesUnresolvedNamed ==
    /\ pc \in {"record", "final"}
    /\ loop.resolved # <<>>
    /\ PerNsIsNone(Head(loop.resolved).def)
    /\ ~Head(loop.resolved).data.is_glob
    /\ Head(loop.resolved).data.path.segments # <<>>

\* the step that applies r leaves an entry for name n in the scope of the module
\* of r: a new entry with both slots empty and r as its provenance when n had no
\* entry, and the entry n had, untouched, otherwise
LeavesEntry(r, n) ==
    /\ pc' # "panic"
    /\ n \in DOMAIN def_map'.modules[r.module_id].scope
    /\ IF n \in DOMAIN ScopeAt(r.module_id)
       THEN def_map'.modules[r.module_id].scope[n] = ScopeAt(r.module_id)[n]
       ELSE def_map'.modules[r.module_id].scope[n]
               = [def |-> PerNsNone, import |-> Some(r.import)]

UnresolvedImportLeavesEntry ==
    AppliesUnresolvedNamed =>
        LeavesEntry(Head(loop.resolved), ImportName(Head(loop.resolved).data))

\* an entry of a scope is never removed
EntriesStay ==
    \A m \in ModuleIds : DOMAIN ScopeAt(m) \subseteq DOMAIN def_map'.modules[m].scope

\* after the pass every unresolved import with a last path segment has an entry
\* for its bound name, and an entry with both slots empty names an import
UnresolvedImportsHaveEntries ==
    Finished =>
        \A i \in UnresolvedNamed :
           /\ ImportName(hist.applied[i].data) \in DOMAIN ScopeAt(hist.applied[i].module_id)
           /\ LET e == ScopeAt(hist.applied[i].module_id)[ImportName(hist.applied[i].data)]
              IN PerNsIsNone(e.def) => IsSome(e.import)

\* C11 (amended): applying a non-glob import whose path never resolved and has
\* at least one segment does not abort the pass; if its bound name (alias or
\* last path segment) had no entry in the scope of the importing module, the
\* step creates one with both namespace slots empty and the import as its
\* provenance, and if the name had an entry, filled or not, the step leaves that
\* entry as it was. No entry is ever removed, so after the pass the name still
\* has an entry, and one whose slots are both empty names an import.
C11_UnresolvedImportLeavesEntryOrKeepsBinding ==
    /\ [][UnresolvedImportLeavesEntry /\ EntriesStay]_vars
    /\ []UnresolvedImportsHaveEntries

\* C11 witness: the pass finished after it applied an unresolved `use` of a name
\* that had no entry, and the entry of that name has both slots empty and the
\* import as its provenance.
C11_Witness ==
    /\ Finished
    /\ \E i \in UnresolvedNamed :
          /\ hist.applied[i].fresh
          /\ ScopeAt(hist.applied[i].module_id)[ImportName(hist.applied[i].data)]
                = [def |-> PerNsNone, import |-> Some(hist.applied[i].import)]

\* the interner a kind of the session is interned in
SessionField(kind) == IF kind = "Macro" THEN "macros" ELSE InternerField(kind)

\* the location an id of a kind of the session is looked up to
LookedUp(kind, id) ==
    IF kind = "Macro" THEN MacroCallLocOf(interner, id) ELSE ItemLocOf(interner, kind, id)

\* C12: for each item kind, interning the same (module, source location) any
\* number of times returns the same id, interning two distinct (module, source
\* location) pairs returns two distinct ids, and looking an id up returns the
\* pair it was interned for.
C12_InternIsInjectiveAndStable ==
    /\ \A c \in {hist.last[i] : i \in 1..Len(hist.last)} :
          /\ <<c.kind, c.pair>> \in DOMAIN hist.ids
          /\ c.id = hist.ids[<<c.kind, c.pair>>]
    /\ \A x \in DOMAIN hist.ids : \A y \in DOMAIN hist.ids :
          (x[1] = y[1] /\ x[2] # y[2]) => hist.ids[x] # hist.ids[y]
    /\ \A x \in DOMAIN hist.ids :
          /\ hist.ids[x] \in 1..Len(interner[SessionField(x[1])])
          /\ LookedUp(x[1], hist.ids[x]).module = x[2].module
          /\ LookedUp(x[1], hist.ids[x]).raw = x[2].raw

\* C12 witness: a pair was interned again after two other pairs of its kind, one
\* in another module and one at another source location, and got the id of its
\* first call.
C12_Witness ==
    /\ pc = "session"
    /\ hist.last # <<>>
    /\ hist.last[1].repeat
    /\ hist.last[1].id = 1
    /\ Len(interner[SessionField(hist.last[1].kind)]) = 3
    /\ \E x \in DOMAIN hist.ids : \E y \in DOMAIN hist.ids :
          /\ x[1] = hist.last[1].kind /\ y[1] = hist.last[1].kind
          /\ x[2].module # hist.last[1].pair.module /\ x[2].raw = hist.last[1].pair.raw
          /\ y[2].module = hist.last[1].pair.module /\ y[2].raw # hist.last[1].pair.raw

\* the kinds whose interners a session uses
SessionInterners == SessionKinds \cup {"Macro"}

\* the ids a session handed out for a kind
HandedOut(kind) == {hist.ids[x] : x \in {y \in DOMAIN hist.ids : y[1] = kind}}

\* the ids handed out for each kind are the dense range up to the number of
\* locations of that kind, and a first call got the next unused integer
IdsDense ==
    /\ \A kind \in SessionInterners :
          HandedOut(kind) = 1..Len(interner[SessionField(kind)])
    /\ \A c \in {hist.last[i] : i \in 1..Len(hist.last)} :
          ~c.repeat => c.id = Len(interner[SessionField(c.kind)])

\* a step removes no id and leaves every id with the location it had
IdsKept ==
    \A f \in DOMAIN interner :
        /\ Len(interner[f]) <= Len(interner'[f])
        /\ \A id \in 1..Len(interner[f]) : Id2Loc(interner'[f], id) = Id2Loc(interner[f], id)

\* C13: after any sequence of intern calls on one kind's interner the ids handed
\* out are exactly a dense range (the next unused integer is assigned on first
\* sight of a location; the model counts ids from 1), the location an id maps
\* back to never changes, and no id is ever removed or reassigned to another
\* location during the session.
C13_IdsDenseAndNeverReassigned ==
    /\ []IdsDense
    /\ [][IdsKept]_vars

\* C13 witness: the second function location of a session was just interned and
\* got id 2, the next unused integer of its kind, while the interner of macro
\* invocations holds one location.
C13_Witness ==
    /\ pc = "session"
    /\ hist.last # <<>>
    /\ ~hist.last[1].repeat
    /\ hist.last[1].kind = "Function"
    /\ hist.last[1].id = 2
    /\ HandedOut("Function") = {1, 2}
    /\ HandedOut("Macro") = {1}

\* the slot of node n in a table, 0 for a node the table does not hold
SlotOf(table, n, kind) ==
    IF IdOfUnchecked(table, [node |-> n, kind |-> kind]).ok
    THEN IdOfUnchecked(table, [node |-> n, kind |-> kind]).val
    ELSE 0

\* the parent of node n, 0 for the SourceFile node
ParentOf(tree, n) ==
    IF \E p \in Nodes(tree) : \E i \in 1..Len(tree.children[p]) : tree.children[p][i] = n
    THEN CHOOSE p \in Nodes(tree) : \E i \in 1..Len(tree.children[p]) : tree.children[p][i] = n
    ELSE 0

RECURSIVE Ancestors(_, _)
Ancestors(tree, n) ==
    IF ParentOf(tree, n) = 0 THEN {}
    ELSE {ParentOf(tree, n)} \cup Ancestors(tree, ParentOf(tree, n))

Depth(tree, n) == Cardinality(Ancestors(tree, n))

\* the allocated nodes of a tree
Allocated(tree) == {n \in Nodes(tree) : IsAllocated(tree, n)}

\* the item the last edit inserted, and the items that existed before it
Inserted == hist.inserted[Len(hist.inserted)]
ExistedBefore == {n \in Allocated(source_file[1]) : n \notin {Inserted}}
NewSlot(n) == SlotOf(file_items[1], n, source_file[1].kind[n])
OldSlot(n) == SlotOf(hist.old[1], n, source_file[1].kind[n])

C15_ParentSlotBelowNestedSlots ==
    pc = "slots" =>
        /\ \A f \in 1..Len(source_file) : \A n \in Allocated(source_file[f]) :
              /\ SlotOf(file_items[f], n, source_file[f].kind[n]) > 0
              /\ \A a \in Ancestors(source_file[f], n) \cap Allocated(source_file[f]) :
                    SlotOf(file_items[f], a, source_file[f].kind[a])
                       < SlotOf(file_items[f], n, source_file[f].kind[n])
        /\ hist.inserted # <<>> =>
              \A a \in Ancestors(source_file[1], Inserted) \cap ExistedBefore :
                 NewSlot(a) = OldSlot(a)

\* C15 witness: a new child was added to an item nested in another item; both
\* enclosing items kept their slots, which are lower than the slot of the child.
C15_Witness ==
    /\ pc = "slots"
    /\ hist.inserted # <<>>
    /\ \E a \in ExistedBefore : \E b \in ExistedBefore :
          /\ a \in Ancestors(source_file[1], b)
          /\ b \in Ancestors(source_file[1], Inserted)
          /\ NewSlot(a) = OldSlot(a) /\ NewSlot(b) = OldSlot(b)
          /\ NewSlot(a) < NewSlot(b) /\ NewSlot(b) < NewSlot(Inserted)

\* number of invocations up to which the walk of original_file is replayed
MaxChain == 6

RECURSIVE FollowedToReal(_, _, _)
\* the real file the chain of enclosing files of file_id ends at, following
\* macro-origin addresses through the files of their invocations; None when the
\* chain leaves the interner or is longer than `steps`, the number of
\* invocations it could pass through without passing through one twice
FollowedToReal(int, file_id, steps) ==
    IF ~file_id.macro THEN Some(file_id.id)
    ELSE IF steps = 0 \/ file_id.id \notin 1..Len(int.macros) THEN None
    ELSE FollowedToReal(int, MacroCallLocOf(int, file_id.id).raw.file_id, steps - 1)

\* the invocation behind the macro-origin address c lies in a file of the source
\* root or in a pseudo-file created before c
EnclosingFileExists(int, c) ==
    IF MacroCallLocOf(int, c).raw.file_id.macro
    THEN MacroCallLocOf(int, c).raw.file_id.id \in 1..(c - 1)
    ELSE MacroCallLocOf(int, c).raw.file_id.id \in 1..Len(files)

\* original_file of the pseudo-file c returns, and returns a file of the source
\* root
HasOriginalFile(int, c) ==
    /\ IsSome(FollowedToReal(int, MacroFile(c), Len(int.macros)))
    /\ OriginalFile(int, MacroFile(c)) = Unwrap(FollowedToReal(int, MacroFile(c), Len(int.macros)))
    /\ OriginalFile(int, MacroFile(c)) \in 1..Len(files)

\* a step leaves every invocation interned so far where it was interned, and an
\* invocation it interns lies in a file that exists and has an original file
InternedInExistingFile ==
    /\ Len(interner.macros) <= Len(interner'.macros)
    /\ SubSeq(interner'.macros, 1, Len(interner.macros)) = interner.macros
    /\ \A c \in (Len(interner.macros) + 1)..Len(interner'.macros) :
          /\ EnclosingFileExists(interner', c)
          /\ c <= MaxChain => HasOriginalFile(interner', c)

\* C16: for every pseudo-file address created during a pass, original_file
\* terminates and returns a real file: the invocation behind a macro-origin
\* address was interned while collecting a file that already existed, so
\* following the chain of enclosing files never revisits an invocation and ends
\* at a real file after finitely many steps. (No pseudo-file exists when the
\* pass starts and every step keeps the invocations interned before it, so the
\* file of every invocation is a real file or an earlier pseudo-file; the walk
\* of original_file itself is replayed for the first MaxChain pseudo-files.)
C16_OriginalFileTerminatesAtRealFile ==
    /\ [](pc = "start" => interner.macros = <<>>)
    /\ [][InternedInExistingFile]_vars

\* C16 witness: the pass interned an invocation found in the expansion of an
\* invocation that was itself found in an expansion, and original_file follows
\* the pseudo-file of the innermost one back to the root file.
C16_Witness ==
    /\ Len(interner.macros) = 3
    /\ MacroCallLocOf(interner, 3).raw.file_id = MacroFile(2)
    /\ MacroCallLocOf(interner, 2).raw.file_id = MacroFile(1)
    /\ ~MacroCallLocOf(interner, 1).raw.file_id.macro
    /\ OriginalFile(interner, MacroFile(3)) = RootFile

\* the pseudo-files hir_parse is replayed for
ReplayedCalls == {c \in 1..Len(interner.macros) : c <= MaxChain}

\* invocation c has a token tree, a recorded resolution, and its macro expands
Expands(c) ==
    /\ InvocationAt(c).arg # "no_tt"
    /\ c \in DOMAIN def_map.macro_resolutions
    /\ IsSome(Expand(RulesOf(def_map, def_map.macro_resolutions[c]), InvocationAt(c).arg))

HirParseOf(c) == HirParse(def_map, interner, files, MacroFile(c))

\* C17: resolving a macro-origin pseudo-file address to syntax never fails: when
\* the invocation has no recorded macro resolution, has no argument token tree,
\* or pattern-match expansion fails, the result is an empty synthetic file with
\* no items; otherwise it is the item list built from the expansion.
C17_HirParseOfPseudoFileNeverFails ==
    (pc \notin {"session", "slots"}) =>
        \A c \in ReplayedCalls :
           /\ ~HirParseOf(c).failed
           /\ IF Expands(c)
              THEN HirParseOf(c).items
                      = Unwrap(Expand(RulesOf(def_map, def_map.macro_resolutions[c]),
                                      InvocationAt(c).arg))
              ELSE HirParseOf(c).items = <<>>

\* C17 witness: the pass finished with three invocations interned: one whose
\* expansion is a function item, one whose resolution was never recorded, and one
\* whose arguments match no rule of its macro; hir_parse gives the function item
\* for the first and an empty file for the other two.
C17_Witness ==
    /\ Finished
    /\ \E a \in ReplayedCalls : \E b \in ReplayedCalls : \E c \in ReplayedCalls :
          /\ Expands(a)
          /\ HirParseOf(a).items # <<>>
          /\ HirParseOf(a).items[1].k = "Def"
          /\ InvocationAt(b).arg = "ok"
          /\ b \notin DOMAIN def_map.macro_resolutions
          /\ HirParseOf(b) = EmptySourceFile
          /\ InvocationAt(c).arg = "nomatch"
          /\ HirParseOf(c) = EmptySourceFile

\* the queries of the session whose outcome is recorded
LastQueries(op) == {i \in 1..Len(hist.last) : pc = "slots" /\ hist.last[i].op = op}

\* C18 as stated: resolving a slot to its syntax node fails with a stale-slot
\* condition whenever the slot table was built for a different file than the
\* one it is queried against; in that case it never returns a syntax node.
C18_ResolveAgainstOtherFileFails ==
    \A i \in LastQueries("index") :
       hist.last[i].table # hist.last[i].file => ~hist.last[i].res.ok

\* C18 amended: it is the lookup of a node (id_of) that fails with the wrong-file
\* assertion whenever the table was built for a different file than the one
\* passed, and then returns no slot. Resolving a slot checks no file: against the
\* table's own file, as file_item_query does, an allocated slot always gives the
\* node recorded at it, and against any file a returned node has the position
\* and kind recorded at the slot.
C18_LookupAgainstOtherFileFails ==
    /\ \A i \in LastQueries("id_of") :
          hist.last[i].table # hist.last[i].file
             => hist.last[i].res = Panic("SourceFileItems: wrong file")
    /\ \A i \in LastQueries("index") :
          LET q == hist.last[i] IN
          /\ (q.table = q.file)
                => /\ q.res = FileItemQuery(source_file, file_items,
                                            SourceItemId(RealFile(q.file), q.arg))
                   /\ q.res.ok <=> q.arg \in 1..Len(file_items[q.table].arena)
          /\ q.res.ok
                => SyntaxNodePtr(source_file[q.file], q.res.val)
                      = file_items[q.table].arena[q.arg]

\* C18 witness: a node that has a slot in the table of another file was looked up
\* there under its own file id, and the lookup ended in the wrong-file assertion.
C18_Witness ==
    \E i \in LastQueries("id_of") :
       LET q == hist.last[i] IN
       /\ q.table # q.file
       /\ IdOfUnchecked(file_items[q.table], SyntaxNodePtr(source_file[q.file], q.arg)).ok
       /\ q.res = Panic("SourceFileItems: wrong file")

\* the modules of the tree under construction
TreeModules == {m \in 1..Len(def_map.modules) : pc \notin {"start", "session", "slots"}}

\* module m was pushed for a `mod name;` declaration collect_module handled
FromDeclaration(m) ==
    /\ IsSome(def_map.modules[m].declaration)
    /\ \E i \in 1..Len(hist.declared) :
          hist.declared[i].at = Unwrap(def_map.modules[m].declaration)

\* module m was pushed for an inline module block
FromInlineBlock(m) ==
    /\ IsSome(def_map.modules[m].declaration)
    /\ ~FromDeclaration(m)

\* C19 as stated: in the finished module tree, every module created from an
\* inline module block and every module created from a resolved `mod name;`
\* declaration has its definition file set (as does the root module).
C19_EveryModuleHasDefinitionFile ==
    Finished => \A m \in TreeModules : IsSome(def_map.modules[m].definition)

\* C19 amended: in the module tree, during the pass and when it has finished,
\* the root module has the root file as its definition file and every module
\* created from a resolved `mod name;` declaration has the file the declaration
\* resolved to; a module created from an inline module block has no definition
\* file, only its declaration.
C19_FileModulesHaveDefinitionFile ==
    \A m \in TreeModules :
       /\ (m = def_map.root)
             => /\ def_map.modules[m].definition = Some(RootFile)
                /\ IsNone(def_map.modules[m].declaration)
       /\ FromDeclaration(m)
             => /\ IsSome(def_map.modules[m].definition)
                /\ Unwrap(def_map.modules[m].definition) \in 2..Len(files)
       /\ FromInlineBlock(m) => IsNone(def_map.modules[m].definition)

\* C19 witness: the pass finished on `mod a { mod sub; } mod inner;` with a file
\* inner.rs: the tree has the inline module a without a definition file and the
\* module inner with the file its declaration resolved to.
C19_Witness ==
    /\ Finished
    /\ \E a \in TreeModules : \E c \in TreeModules :
          /\ FromInlineBlock(a)
          /\ def_map.modules[a].parent = Some(def_map.root)
          /\ IsNone(def_map.modules[a].definition)
          /\ FromDeclaration(c)
          /\ def_map.modules[c].parent = Some(def_map.root)
          /\ IsSome(def_map.modules[c].definition)
          /\ files[Unwrap(def_map.modules[c].definition)].path = RelPath(<<>>, "inner")

\* the edit of the session was taken by reparse_leaf
LeafReparsed == pc = "reparse" /\ hist.edit # <<>> /\ hist.reparsed

\* C20: for every edit on which reparse_leaf succeeds, the old tree with the
\* reparsed node spliced in is the tree a full parse of the edited text gives;
\* compared here leaf by leaf (kind and text).
C20_ReparsedLeafEqualsFullParse ==
    LeafReparsed
       => source_file[1] = Tokenize(ApplyEdit(hist.edit[1], TextOf(hist.before[1])))

\* the leaf reparse_leaf replaced
ReparsedNode == Unwrap(ReparseLeaf(hist.before[1], hist.edit[1])).node

\* where the spliced tree differs from the full parse, the new leaf is the
\* identifier `r` and the text goes on with `#"` or `##`: the full parse starts
\* a raw string there, which one character of lookahead does not show
ReparsedLeafDiffersOnlyAtRawStringStart ==
    (LeafReparsed
       /\ source_file[1] # Tokenize(ApplyEdit(hist.edit[1], TextOf(hist.before[1]))))
      => /\ source_file[1][ReparsedNode] = Leaf("IDENT", <<"r">>)
         /\ CharAt(TextOf(source_file[1]), RangeOf(source_file[1], ReparsedNode).end)
               = Some("#")
         /\ CharAt(TextOf(source_file[1]), RangeOf(source_file[1], ReparsedNode).end + 1)
               \in {Some("#"), Some("\"")}

\* a step of the pass inside a macro pass: an expansion, or the walk over one
InMacroPass == pc = "expand" \/ (pc = "collect" /\ loop.cont = "expand")

\* the order of the steps of one round: the import pass, the application of
\* what it resolved, the macro pass, the expansions, and then the test
RoundInOrder ==
    /\ pc = "imports" => pc' \in {"record", "macros"}
    /\ pc = "record" => pc' \in {"record", "macros", "panic"}
    /\ pc' = "macros" => pc \in {"imports", "record"}
    /\ pc = "macros" => pc' \in {"expand", "test"}
    /\ InMacroPass => pc' \in {"collect", "expand", "test", "panic", "overflow"}
    /\ pc' = "test" => pc = "macros" \/ InMacroPass
    /\ pc = "test" => pc' \in {"imports", "finalize"}
    /\ pc' = "imports" => pc = "test" \/ (pc \in {"start", "collect"} /\ loop.cont = "imports")

\* the result of a pass is set by that pass alone, and the loop is left by
\* convergence exactly when the test finds both results at a fixed point
ResultsOfTheRound ==
    /\ loop'.fp_imports # loop.fp_imports => pc = "imports"
    /\ loop'.fp_macros # loop.fp_macros => pc = "macros"
    /\ pc = "imports" => loop'.fp_imports = (loop'.resolved = <<>>)
    /\ hist'.exit # hist.exit => pc = "test"
    /\ pc = "test" => (hist'.exit = "converged" <=> (loop.fp_imports /\ loop.fp_macros))

\* C21: in every round of the main loop the import pass runs first and the
\* macro pass runs afterwards, the macro pass being run even when the import
\* pass reported progress; the loop exits by convergence only in a round in
\* which both passes report fixed point.
C21_ImportPassThenMacroPassEveryRound ==
    [][(pc \notin {"session", "slots", "reparse"}) => (RoundInOrder /\ ResultsOfTheRound)]_vars

\* C21 witness: the test of a round is reached in which the import pass reported
\* progress and the macro pass, run after it, reported progress as well.
C21_Witness ==
    /\ pc = "test"
    /\ ~loop.fp_imports
    /\ ~loop.fp_macros
    /\ hist.applied # <<>>
    /\ def_map.macro_resolutions # EmptyMap

\* the queue numbers of the entries of a queue, in its order
QidsOf(q) == [k \in 1..Len(q) |-> q[k].qid]

\* the queue numbers of the entries of q whose number is in keep, in the order of q
RECURSIVE KeptQids(_, _)
KeptQids(q, keep) ==
    IF q = <<>> THEN <<>>
    ELSE (IF Head(q).qid \in keep THEN <<Head(q).qid>> ELSE <<>>) \o KeptQids(Tail(q), keep)

\* the queued imports whose resolution, against the definition map as it is
\* when the pass starts, reaches a fixed point
AtFixedPoint ==
    { col.unresolved_imports[k].qid : k \in
        { k \in 1..Len(col.unresolved_imports) :
            ResolveImport(def_map, files, interner, col.unresolved_imports[k].module_id,
                          col.unresolved_imports[k].data).fp } }

\* a step of resolve_imports up to the loop over `resolved`
ImportPassSplitsQueue ==
    pc = "imports" =>
       /\ QidsOf(loop'.resolved) = KeptQids(col.unresolved_imports, AtFixedPoint)
       /\ QidsOf(col'.unresolved_imports)
             = KeptQids(col.unresolved_imports,
                        {col.unresolved_imports[k].qid : k \in 1..Len(col.unresolved_imports)}
                           \ AtFixedPoint)
       /\ \A k \in 1..Len(col'.unresolved_imports) :
             \E j \in 1..Len(col.unresolved_imports) :
                col'.unresolved_imports[k] = col.unresolved_imports[j]
       /\ loop'.fp_imports <=> AtFixedPoint = {}

\* a step of the loop over `resolved`: the head is applied, the queue is left alone
ResolvedImportApplied ==
    pc = "record" =>
       /\ loop.resolved # <<>>
       /\ Len(hist'.applied) = Len(hist.applied) + 1
       /\ hist'.applied[Len(hist'.applied)].qid = Head(loop.resolved).qid
       /\ hist'.applied[Len(hist'.applied)].empty = PerNsIsNone(Head(loop.resolved).def)
       /\ loop'.resolved = Tail(loop.resolved)
       /\ col'.unresolved_imports = col.unresolved_imports
       /\ pc' = "macros" => loop'.resolved = <<>>

\* C22: an import-resolution pass removes from the unresolved queue exactly the
\* imports that reached fixed point in that pass (successfully or as a permanent
\* failure) and applies each of them; all other imports stay queued in their
\* original relative order; the pass reports progress iff at least one import
\* reached fixed point.
C22_ImportPassRemovesFixedPointImports ==
    [][ImportPassSplitsQueue /\ ResolvedImportApplied]_vars

\* C22 witness: a pass took the glob import between two `use super::b::nope;`
\* of module a out of the queue and is about to apply it; the two others are
\* still queued, in their order.
C22_Witness ==
    /\ pc = "record"
    /\ Len(loop.resolved) = 1
    /\ loop.resolved[1].qid = 2
    /\ ~PerNsIsNone(loop.resolved[1].def)
    /\ QidsOf(col.unresolved_imports) = <<1, 3>>
    /\ ~loop.fp_imports

\* a pass took an import that failed for good (`use super as q;` in the root)
\* out of the queue and is about to apply it with an empty resolution
PermanentFailureApplied ==
    /\ pc = "record"
    /\ loop.resolved # <<>>
    /\ PerNsIsNone(Head(loop.resolved).def)
    /\ ~loop.fp_imports

\* the resolution of a queued or resolved import e against the definition map dm
ResolutionIn(dm, e) == ResolveImport(dm, files, interner, e.module_id, e.data)

\* while a pass applies its imports: each import still to apply carries the
\* resolution against the map as it was when the pass started, and each import
\* left in the queue was not at a fixed point in that map
ResolvedAtStartOfPass ==
    pc = "record" =>
       /\ \A k \in 1..Len(loop.resolved) :
             /\ ResolutionIn(hist.at_pass, loop.resolved[k]).fp
             /\ loop.resolved[k].def = ResolutionIn(hist.at_pass, loop.resolved[k]).def
       /\ \A k \in 1..Len(col.unresolved_imports) :
             ~ResolutionIn(hist.at_pass, col.unresolved_imports[k]).fp

\* an application of the pass changes neither the resolutions still to apply
\* nor the queue
ApplicationsKeepResolutions ==
    pc = "record" =>
       /\ loop'.resolved = Tail(loop.resolved)
       /\ col'.unresolved_imports = col.unresolved_imports
       /\ hist'.at_pass = hist.at_pass

\* C23: within one import-resolution pass every queued import is resolved
\* against the module scopes as they were when the pass started: a binding
\* produced by applying one import in that pass is not seen by the resolution
\* of any other import until the next round.
C23_ImportsResolvedAgainstScopesAtPassStart ==
    []ResolvedAtStartOfPass /\ [][ApplicationsKeepResolutions]_vars

\* C23 witness: the first pass has applied `use super::b::*;` of module a, which
\* binds E there, and the pass is at its end; `use self::E as g;`, which is
\* behind the glob import in the queue and resolves in the scopes as they are
\* now, is still queued, because E was not bound when the pass started.
C23_Witness ==
    /\ pc = "macros"
    /\ hist.rounds = 0
    /\ Len(hist.applied) = 1
    /\ hist.applied[1].data.is_glob
    /\ \E k \in 1..Len(col.unresolved_imports) :
          /\ col.unresolved_imports[k].qid > hist.applied[1].qid
          /\ col.unresolved_imports[k].data.alias = Some("g")
          /\ ~ResolutionIn(hist.at_pass, col.unresolved_imports[k]).fp
          /\ ResolutionIn(def_map, col.unresolved_imports[k]).fp
          /\ ~PerNsIsNone(ResolutionIn(def_map, col.unresolved_imports[k]).def)

\* the import a step of the pass applies
ApplyingImport == pc \in {"record", "final"} /\ loop.resolved # <<>>

\* the head of `resolved` is a glob import, not the prelude import, whose
\* resolution holds a module in its type namespace
AppliesGlobOfModule ==
    /\ ApplyingImport
    /\ Head(loop.resolved).data.is_glob
    /\ ~Head(loop.resolved).data.is_prelude
    /\ IsSome(Head(loop.resolved).def.types)
    /\ Unwrap(Head(loop.resolved).def.types).kind = "Module"

GlobbedModule == Unwrap(Head(loop.resolved).def.types)

\* every slot that is filled in `scope` before the step is filled in the scope
\* of module a after it
CopiedInto(scope, a) ==
    \A n \in DOMAIN scope :
       /\ Bound(scope[n]) => n \in DOMAIN def_map'.modules[a].scope
       /\ IsSome(scope[n].def.types) => IsSome(def_map'.modules[a].scope[n].def.types)
       /\ IsSome(scope[n].def.values) => IsSome(def_map'.modules[a].scope[n].def.values)

\* the edges of the propagation graph change only by the step that applies a
\* glob import of a module of this package, which copies the module's scope and
\* adds the one edge from that module to the importing module
EdgeRegisteredForOwnModule ==
    (col'.glob_imports # col.glob_imports) =>
       /\ AppliesGlobOfModule
       /\ GlobbedModule.krate = def_map.krate
       /\ col'.glob_imports
             = Insert(col.glob_imports, GlobbedModule.id,
                      Append(GlobEdges(col.glob_imports, GlobbedModule.id),
                             [module |-> Head(loop.resolved).module_id,
                              import |-> Head(loop.resolved).import]))
       /\ pc' # "panic"
             => CopiedInto(def_map.modules[GlobbedModule.id].scope,
                           Head(loop.resolved).module_id)

\* a glob import of a module of another package copies the scope and adds no edge
ForeignGlobCopiedOnce ==
    (AppliesGlobOfModule /\ GlobbedModule.krate # def_map.krate) =>
       /\ col'.glob_imports = col.glob_imports
       /\ pc' # "panic"
             => CopiedInto(CrateDefMapOf(GlobbedModule.krate).modules[GlobbedModule.id].scope,
                           Head(loop.resolved).module_id)

\* own glob imports are registered
OwnGlobRegistered ==
    (AppliesGlobOfModule /\ GlobbedModule.krate = def_map.krate) =>
       col'.glob_imports # col.glob_imports

\* every edge of the graph leads from a module of this package to a module of
\* this package that holds the glob import
EdgesWithinPackage ==
    (pc \notin {"session", "slots", "reparse"}) =>
       \A m \in DOMAIN col.glob_imports :
          /\ m \in ModuleIds
          /\ \A k \in 1..Len(col.glob_imports[m]) :
                col.glob_imports[m][k].module \in ModuleIds

\* C24: a glob-propagation edge M -> (importing module, import) is registered
\* only when a non-prelude glob import resolves to a module M of the package
\* being collected, and it is registered after M's current scope has been
\* copied; a glob import of a module of another package copies that module's
\* scope once and registers no edge, so every module in the propagation graph
\* belongs to the current package.
C24_GlobEdgesOnlyForOwnModules ==
    /\ []EdgesWithinPackage
    /\ [][(pc \notin {"session", "slots", "reparse"})
             => (EdgeRegisteredForOwnModule /\ ForeignGlobCopiedOnce /\ OwnGlobRegistered)]_vars

\* C24 witness: the pass finished on `mod a { use super::b::*; } mod b { use
\* dep::*; }`: the only edge of the graph leads from b to a, the glob import of
\* the dependency's root registered none, and the dependency's `df` is bound
\* in b and, forwarded, in a.
C24_Witness ==
    /\ Finished
    /\ "a" \in DOMAIN def_map.modules[def_map.root].children
    /\ "b" \in DOMAIN def_map.modules[def_map.root].children
    /\ DOMAIN col.glob_imports = {ChildOfRoot("b")}
    /\ Len(col.glob_imports[ChildOfRoot("b")]) = 1
    /\ col.glob_imports[ChildOfRoot("b")][1].module = ChildOfRoot("a")
    /\ \E i \in 1..Len(hist.applied) :
          /\ hist.applied[i].data.is_glob
          /\ hist.applied[i].data.path = DepPath(<<>>)
          /\ hist.applied[i].module_id = ChildOfRoot("b")
          /\ ~hist.applied[i].empty
    /\ "df" \in DOMAIN ScopeAt(ChildOfRoot("b"))
    /\ "df" \in DOMAIN ScopeAt(ChildOfRoot("a"))

\* the edges of the propagation graph: <<M, A>> for M -> (A, import)
RegisteredEdges ==
    UNION { { <<m, col.glob_imports[m][k].module>> : k \in 1..Len(col.glob_imports[m]) } :
            m \in DOMAIN col.glob_imports }

\* every slot that is filled in the scope of m is filled in the scope of a
SlotsFilledIn(m, a) ==
    \A n \in DOMAIN ScopeAt(m) :
       /\ IsSome(ScopeAt(m)[n].def.types)
             => n \in DOMAIN ScopeAt(a) /\ IsSome(ScopeAt(a)[n].def.types)
       /\ IsSome(ScopeAt(m)[n].def.values)
             => n \in DOMAIN ScopeAt(a) /\ IsSome(ScopeAt(a)[n].def.values)

\* C25: after every top-level `update` call returns, for every registered
\* glob-propagation edge M -> (A, import) and every name n: if n's
\* type-namespace (respectively value-namespace) slot is filled in M's scope
\* then the same slot of n is filled in A's scope; this holds for chains and
\* cycles of glob imports as well.
C25_EdgesCarryEveryFilledSlot ==
    (pc \notin {"session", "slots", "reparse", "panic"}) =>
        \A e \in RegisteredEdges : SlotsFilledIn(e[1], e[2])

\* C25 witness: modules a and b glob-import each other, so the graph has the
\* cycle a -> b -> a; the function g, which the expansion of a macro invocation
\* in b defined after both edges were registered, fills its value slot in b
\* and in a.
C25_Witness ==
    /\ Finished
    /\ "a" \in DOMAIN def_map.modules[def_map.root].children
    /\ "b" \in DOMAIN def_map.modules[def_map.root].children
    /\ {<<ChildOfRoot("a"), ChildOfRoot("b")>>, <<ChildOfRoot("b"), ChildOfRoot("a")>>}
          \subseteq RegisteredEdges
    /\ def_map.macro_resolutions # EmptyMap
    /\ "g" \in DOMAIN ScopeAt(ChildOfRoot("b"))
    /\ "g" \in DOMAIN ScopeAt(ChildOfRoot("a"))
    /\ IsSome(ScopeAt(ChildOfRoot("b"))["g"].def.values)
    /\ IsSome(ScopeAt(ChildOfRoot("a"))["g"].def.values)

\* the outcome of the step the pass is about to take, where that step makes
\* top-level calls of `update`: the application of an import, or the walk over
\* one item
OutcomeOfStep ==
    IF ApplyingImport THEN RecordHead(Head(loop.resolved))
    ELSE CollectItem(def_map, col, interner, hist, files, stack[Len(stack)],
                     Head(stack[Len(stack)].items))

CallsUpdate == ApplyingImport \/ (pc = "collect" /\ stack # <<>>)

\* C26: glob propagation always terminates, also when glob imports form a
\* cycle (A globs B and B globs A): a module whose scope is not changed by the
\* forwarded pairs does not forward them further, so the recursion depth of one
\* `update` never exceeds the number of modules in the package, and the
\* depth-100 fatal assertion is never hit in a package with at most 100 modules.
C26_GlobPropagationDepthBounded ==
    /\ pc # "panic"
    /\ CallsUpdate =>
          /\ ~OutcomeOfStep.panic
          /\ OutcomeOfStep.deepest <= Len(OutcomeOfStep.def_map.modules)
          /\ Len(OutcomeOfStep.def_map.modules) <= GlobDepthLimit

\* C26 witness: modules a, b and c glob-import in a cycle (a from b, b from c, c
\* from a) and all three edges are registered; the walk over the expansion of
\* the macro invocation in c is about to define a function there, and the
\* update that does so reaches depth 3: c, b and a change, and c, reached again
\* from a, does not and forwards nothing.
C26_Witness ==
    /\ pc = "collect"
    /\ stack # <<>>
    /\ Len(def_map.modules) = 4
    /\ Cardinality(RegisteredEdges) = 3
    /\ stack[Len(stack)].file_id.macro
    /\ OutcomeOfStep.deepest = 3
    /\ ~OutcomeOfStep.panic

(***************************************************************************)
(* `extern crate` items and the extern prelude                             *)
(***************************************************************************)
\* the head of `resolved` is an `extern crate` item of the crate root that
\* resolved to a definition
AppliesRootExternCrate ==
    /\ ApplyingImport
    /\ Head(loop.resolved).data.is_extern_crate
    /\ Head(loop.resolved).module_id = def_map.root
    /\ ~PerNsIsNone(Head(loop.resolved).def)

\* the name an `extern crate` item binds: its alias, or the name of the crate
ExternCrateName(data) ==
    IF IsSome(data.alias) THEN Unwrap(data.alias) ELSE data.path.segments[1]

\* the step adds the bound name of such an item to the extern prelude, and no
\* other step changes the extern prelude
ExternPreludeStep ==
    IF AppliesRootExternCrate
    THEN def_map'.extern_prelude
            = Insert(def_map.extern_prelude, ExternCrateName(Head(loop.resolved).data),
                     Unwrap(Head(loop.resolved).def.types))
    ELSE def_map'.extern_prelude = def_map.extern_prelude

\* C27: applying an `extern crate` import adds the name it binds (the alias if
\* there is one, otherwise the name of the crate) to the extern prelude only
\* when the importing module is the crate root and the import resolved to a
\* definition; an `extern crate` import of any other module, or one that did
\* not resolve, leaves the extern prelude unchanged.
C27_ExternCrateOfRootEntersExternPrelude ==
    [][(pc \notin {"session", "slots", "reparse"}) => ExternPreludeStep]_vars

\* C27 witness: the pass finished on `mod a { extern crate dep as z; } extern
\* crate dep as x; extern crate nodep as y;`: the three items were applied, x is
\* in the extern prelude with the root of dep, and neither y (unresolved) nor z
\* (bound in a) is.
C27_Witness ==
    /\ pc = "done"
    /\ \A n \in {"x", "y", "z"} :
          \E k \in 1..Len(hist.applied) :
             /\ hist.applied[k].data.is_extern_crate
             /\ hist.applied[k].data.alias = Some(n)
             /\ hist.applied[k].empty = (n = "y")
             /\ (hist.applied[k].module_id = def_map.root) = (n # "z")
    /\ "x" \in DOMAIN def_map.extern_prelude
    /\ def_map.extern_prelude["x"] = ModuleOf(DepKrate, Root)
    /\ "y" \notin DOMAIN def_map.extern_prelude
    /\ "z" \notin DOMAIN def_map.extern_prelude
    /\ IsSome(ScopeDef(def_map.modules[2].scope, "z").types)

(***************************************************************************)
(* The prelude                                                             *)
(***************************************************************************)
\* the positions of the dependencies whose definition map has a prelude
DepsWithPrelude(ds) ==
    { i \in 1..Len(ds) : IsSome(CrateDefMapOf(ds[i].krate).prelude) }

\* the prelude of the first of them, in dependency order
FirstDepPrelude(ds) ==
    IF DepsWithPrelude(ds) = {} THEN None
    ELSE CrateDefMapOf(ds[CHOOSE i \in DepsWithPrelude(ds) :
                              \A j \in DepsWithPrelude(ds) : i <= j].krate).prelude

\* before the walk of the root file the prelude is the one adopted from the
\* dependencies
AdoptedAtInit == (pc = "start") => def_map.prelude = FirstDepPrelude(deps)

\* the head of `resolved` is the prelude import and its resolution holds a
\* module in its type namespace
AppliesPreludeGlob ==
    /\ ApplyingImport
    /\ Head(loop.resolved).data.is_glob
    /\ Head(loop.resolved).data.is_prelude
    /\ IsSome(Head(loop.resolved).def.types)
    /\ Unwrap(Head(loop.resolved).def.types).kind = "Module"

\* the step that applies it makes that module the prelude and changes neither a
\* scope nor the propagation graph; no other step changes the prelude
PreludeStep ==
    IF AppliesPreludeGlob
    THEN /\ def_map'.prelude = Some(ModuleRef(GlobbedModule.krate, GlobbedModule.id))
         /\ def_map'.modules = def_map.modules
         /\ col'.glob_imports = col.glob_imports
    ELSE def_map'.prelude = def_map.prelude

\* C28: when a glob import marked as the prelude import resolves to a module M,
\* M becomes the prelude of the package (in place of a prelude adopted from a
\* dependency at initialization) and the scope of the importing module and the
\* glob-propagation graph stay as they are; at initialization the adopted
\* prelude is that of the first dependency, in dependency order, whose
\* definition map has one.
C28_PreludeImportInstallsPrelude ==
    /\ []AdoptedAtInit
    /\ [][(pc \notin {"session", "slots", "reparse"}) => PreludeStep]_vars

\* C28 witness: the pass finished on `mod a { fn pf() {} } #[prelude_import]
\* use self::a::*; use pf;` with the dependencies dep3 (no prelude) and dep: the
\* prelude adopted at initialization was dep's, under which `use pf` resolved to
\* dep's function; the prelude import was applied, the prelude is module a, the
\* root got no name of a from it, and no edge was registered.
C28_Witness ==
    /\ pc = "done"
    /\ Len(deps) = 2
    /\ deps[1].krate = Dep3Krate
    /\ FirstDepPrelude(deps) = Some(ModuleRef(DepKrate, 2))
    /\ \E k \in 1..Len(hist.applied) :
          hist.applied[k].data.is_prelude /\ ~hist.applied[k].empty
    /\ def_map.prelude = Some(ModuleRef(Krate, 2))
    /\ col.glob_imports = EmptyMap
    /\ DOMAIN def_map.modules[def_map.root].scope = {"a", "pf"}
    /\ def_map.modules[def_map.root].scope["pf"].def = PerNsValues(ItemDef("Function", 2))
    /\ IsSome(ScopeDef(def_map.modules[2].scope, "pf").values)

(***************************************************************************)
(* Invocations of a macro the owning crate does not export                 *)
(***************************************************************************)
\* the passes of resolve_macros that found the crate of an invocation and no
\* macro of the invoked name among the macros that crate exports
DroppedAt ==
    { k \in 1..Len(hist.examined) :
         /\ IsSome(hist.examined[k].krate)
         /\ hist.examined[k].path.segments[2]
               \notin DOMAIN CrateDefMapOf(Unwrap(hist.examined[k].krate)).public_macros }

\* the invocation is in neither queue, it has no expansion, and no resolution
\* is recorded for it
GoneWithoutTrace(call_id) ==
    /\ \A j \in 1..Len(col.unexpanded_macros) : col.unexpanded_macros[j].call_id # call_id
    /\ \A j \in 1..Len(loop.resolved_macros) : loop.resolved_macros[j].call_id # call_id
    /\ \A j \in 1..Len(stack) : stack[j].file_id # MacroFile(call_id)
    /\ call_id \notin DOMAIN def_map.macro_resolutions

\* no later pass went through the invocation again
ExaminedOnce(k) ==
    \A j \in 1..Len(hist.examined) :
       hist.examined[j].call_id = hist.examined[k].call_id => j = k

\* C29: when the crate a two-segment invocation names resolves but the macros
\* that crate exports hold no macro of the invoked name, the invocation leaves
\* the queue in that round, nothing is expanded or recorded for it, and no
\* later round attempts it again.
C29_UnknownMacroDroppedForGood ==
    (pc \notin {"session", "slots", "reparse"}) =>
       \A k \in DroppedAt :
          /\ GoneWithoutTrace(hist.examined[k].call_id)
          /\ ExaminedOnce(k)

\* C29 witness: the pass finished on `dep::mk_make!(); dep::nomacro!();`: the
\* second invocation was dropped in round 0, the first was expanded, its
\* expansion queued `dep::make_item!()`, which a later round went through and
\* expanded, and nothing is recorded for the dropped one.
C29_Witness ==
    /\ pc = "done"
    /\ \E k \in DroppedAt :
          /\ hist.examined[k].path = DepPath(<<"nomacro">>)
          /\ hist.examined[k].round = 0
          /\ hist.examined[k].call_id \notin DOMAIN def_map.macro_resolutions
    /\ \E j \in 1..Len(hist.examined) : hist.examined[j].round > 0
    /\ Cardinality(DOMAIN def_map.macro_resolutions) >= 2

(***************************************************************************)
(* The result of a macro pass                                              *)
(***************************************************************************)
\* the invocation has two segments and the first names, in the extern prelude,
\* a module (the root of a crate)
OwningPackageResolves(e) ==
    /\ Len(e.path.segments) = 2
    /\ e.path.segments[1] \in DOMAIN def_map.extern_prelude
    /\ def_map.extern_prelude[e.path.segments[1]].kind = "Module"

\* the pass reports `not at a fixed point` exactly when the crate of a queued
\* invocation resolves
ReportsProgressIffPackageResolves ==
    (pc = "macros") =>
       (loop'.fp_macros
           = ~(\E k \in 1..Len(col.unexpanded_macros) :
                  OwningPackageResolves(col.unexpanded_macros[k])))

\* a pass that reports a fixed point is over with this step: it expands
\* nothing and leaves every scope as it was
FixedPointPassChangesNoScope ==
    (pc = "macros" /\ loop'.fp_macros) =>
       /\ pc' = "test"
       /\ loop'.resolved_macros = <<>>
       /\ def_map'.modules = def_map.modules
       /\ def_map'.macro_resolutions = def_map.macro_resolutions

\* C30: a pass of resolve_macros reports `not at a fixed point` exactly when
\* the owning crate of at least one queued two-segment invocation resolved in
\* that pass, whether the invocation was then expanded or dropped; a pass in
\* which the crate of no invocation resolves reports a fixed point and changes
\* no scope.
C30_MacroPassReportsResolvedPackages ==
    [][ReportsProgressIffPackageResolves /\ FixedPointPassChangesNoScope]_vars

\* C30 witness: on `dep::nomacro!();` the first macro pass is over: the one
\* invocation it went through was dropped, nothing was expanded, and the pass
\* reported `not at a fixed point`.
C30_Witness ==
    /\ pc = "test"
    /\ loop.i = 0
    /\ ~loop.fp_macros
    /\ Len(hist.examined) = 1
    /\ DroppedAt = {1}
    /\ loop.resolved_macros = <<>>
    /\ def_map.macro_resolutions = EmptyMap

(***************************************************************************)
(* Expansion and the macro_resolutions table                               *)
(***************************************************************************)
\* the step collects a bare-name invocation whose name is in the crate-global
\* macro scope
ExpandsAtCollection ==
    /\ pc = "collect"
    /\ stack # <<>>
    /\ stack[Len(stack)].items # <<>>
    /\ Head(stack[Len(stack)].items).k = "Macro"
    /\ ~IsMacroRules(Head(stack[Len(stack)].items).path)
    /\ IsSome(AsIdent(Head(stack[Len(stack)].items).path))
    /\ Unwrap(AsIdent(Head(stack[Len(stack)].items).path)) \in DOMAIN col.global_macro_scope

\* the step expands an invocation of `resolved` in resolve_macros
ExpandsInMacroPass == pc = "expand" /\ loop.resolved_macros # <<>>

\* the invocation the step has found a macro definition for: its id after the
\* step, the definition, and the result of the pattern match
FoundInvocation ==
    IF ExpandsInMacroPass
    THEN [call_id |-> Head(loop.resolved_macros).call_id,
          def_id |-> Head(loop.resolved_macros).def_id,
          expansion |-> Expand(RulesOf(def_map, Head(loop.resolved_macros).def_id),
                               Head(loop.resolved_macros).arg)]
    ELSE LET top == stack[Len(stack)]
             mac == Head(top.items)
             macro_id == col.global_macro_scope[Unwrap(AsIdent(mac.path))]
         IN [call_id |-> MacroCallIdOf(interner', ModuleRef(def_map.krate, top.module_id),
                                       SourceItemId(top.file_id, mac.sid)),
             def_id |-> MacroDefId(def_map.krate, macro_id),
             expansion |-> Expand(def_map.macros[macro_id], mac.arg)]

\* the table gets the invocation exactly when its expansion succeeded; a failed
\* expansion leaves the definition map (scopes, problems, table) and both
\* queues as they were, opens no collect call and ends in no fatal state; no
\* other step writes the table
ResolutionRecordedIffExpanded ==
    IF ExpandsAtCollection \/ ExpandsInMacroPass
    THEN IF IsSome(FoundInvocation.expansion)
         THEN /\ FoundInvocation.call_id \notin DOMAIN def_map.macro_resolutions
              /\ def_map'.macro_resolutions
                    = Insert(def_map.macro_resolutions, FoundInvocation.call_id,
                             FoundInvocation.def_id)
         ELSE /\ def_map' = def_map
              /\ col' = col
              /\ \A j \in 1..Len(stack') : stack'[j].file_id # MacroFile(FoundInvocation.call_id)
              /\ Len(stack') <= Len(stack)
              /\ pc' \notin {"panic", "overflow", "done"}
    ELSE def_map'.macro_resolutions = def_map.macro_resolutions

\* C31: the id of an invocation is in macro_resolutions iff a macro definition
\* was found for it and the pattern match of its argument succeeded; when the
\* expansion fails nothing is recorded for the invocation, no item, import or
\* invocation is added, no problem is recorded, and the pass goes on.
C31_ResolutionRecordedIffExpansionSucceeded ==
    [][(pc \notin {"session", "slots", "reparse"}) => ResolutionRecordedIffExpanded]_vars

\* C31 witness: the pass finished on `dep::make_item!(..)` invoked twice, with
\* an argument that matches and with one that matches no rule: both invocations
\* were interned and found in the dependency, one is in macro_resolutions.
C31_Witness ==
    /\ pc = "done"
    /\ def_map.problems = <<>>
    /\ Len(hist.examined) = 2
    /\ \A k \in 1..2 : hist.examined[k].path = DepPath(<<"make_item">>)
    /\ Len(interner.macros) = 2
    /\ Cardinality(DOMAIN def_map.macro_resolutions) = 1

(***************************************************************************)
(* The file of `mod name;`                                                 *)
(***************************************************************************)
\* the step collects a `mod name;` declaration
DeclaresModule ==
    /\ pc = "collect"
    /\ stack # <<>>
    /\ stack[Len(stack)].items # <<>>
    /\ Head(stack[Len(stack)].items).k = "Module"
    /\ Head(stack[Len(stack)].items).decl

\* the path of the file F the declaration is in
DeclaringPath == files[OriginalFile(interner, stack[Len(stack)].file_id)].path

\* the declaring module is the crate root, or F is a mod.rs
DeclaredByDirOwner ==
    \/ IsNone(def_map.modules[stack[Len(stack)].module_id].parent)
    \/ DeclaringPath.stem = "mod"

\* dir(F)/name.rs then dir(F)/name/mod.rs, or dir(F)/stem(F)/name.rs alone
ExpectedCandidates ==
    LET name == Head(stack[Len(stack)].items).name
    IN IF DeclaredByDirOwner
       THEN <<RelPath(DeclaringPath.dir, name),
              RelPath(DeclaringPath.dir \o <<name>>, "mod")>>
       ELSE <<RelPath(DeclaringPath.dir \o <<DeclaringPath.stem>>, name)>>

\* the positions of the candidates that are files of the source root
ExistingCandidates ==
    { k \in 1..Len(ExpectedCandidates) :
         \E f \in 1..Len(files) : files[f].path = ExpectedCandidates[k] }

FirstExistingCandidate ==
    ExpectedCandidates[CHOOSE k \in ExistingCandidates : \A j \in ExistingCandidates : k <= j]

\* the step allocates the child with the first existing candidate as its
\* definition file and goes on in that file, or allocates no module
ChildDefinedByFirstCandidate ==
    DeclaresModule =>
       IF ExistingCandidates = {}
       THEN def_map'.modules = def_map.modules
       ELSE /\ Len(def_map'.modules) = Len(def_map.modules) + 1
            /\ IsSome(def_map'.modules[Len(def_map'.modules)].definition)
            /\ files[Unwrap(def_map'.modules[Len(def_map'.modules)].definition)].path
                  = FirstExistingCandidate

\* C32: for `mod name;` declared from file F: if the declaring module is the
\* crate root or F is a mod.rs, the candidates are dir(F)/name.rs and then
\* dir(F)/name/mod.rs; otherwise the only candidate is dir(F)/stem(F)/name.rs;
\* the definition file of the child module is the first candidate that exists,
\* so name.rs is chosen over name/mod.rs when both exist.
C32_ChildFileIsFirstExistingCandidate ==
    [][(pc \notin {"session", "slots", "reparse"}) => ChildDefinedByFirstCandidate]_vars

\* C32 witness: the pass finished on a root with `mod sub;` where sub.rs,
\* sub/mod.rs and sub/inner.rs exist: sub is defined by sub.rs, and `mod
\* inner;` of sub.rs, which is neither the root nor a mod.rs, by sub/inner.rs.
C32_Witness ==
    /\ pc = "done"
    /\ \E f \in 1..Len(files) : files[f].path = RelPath(<<"sub">>, "mod")
    /\ Len(def_map.modules) = 3
    /\ def_map.modules[2].parent = Some(def_map.root)
    /\ def_map.modules[3].parent = Some(2)
    /\ IsSome(def_map.modules[2].definition)
    /\ IsSome(def_map.modules[3].definition)
    /\ files[Unwrap(def_map.modules[2].definition)].path = RelPath(<<>>, "sub")
    /\ files[Unwrap(def_map.modules[3].definition)].path = RelPath(<<"sub">>, "inner")

(***************************************************************************)
(* push_child_module                                                       *)
(***************************************************************************)
\* the step collects a module item and allocates a child module for it: an
\* inline module, or a declaration with an existing candidate file
CreatesChild ==
    /\ pc = "collect"
    /\ stack # <<>>
    /\ stack[Len(stack)].items # <<>>
    /\ Head(stack[Len(stack)].items).k = "Module"
    /\ Head(stack[Len(stack)].items).decl => ExistingCandidates # {}

\* the module P that holds the item, the name n and the id of the new child
ParentOfChild == stack[Len(stack)].module_id
NameOfChild == Head(stack[Len(stack)].items).name
NewChild == Len(def_map.modules) + 1

\* the new module is a child of P under n
ChildLinked ==
    /\ Len(def_map'.modules) = NewChild
    /\ def_map'.modules[NewChild].parent = Some(ParentOfChild)
    /\ NameOfChild \in DOMAIN def_map'.modules[ParentOfChild].children
    /\ def_map'.modules[ParentOfChild].children[NameOfChild] = NewChild

\* the type namespace of n in the scope of P holds the new module
ChildBoundInScope ==
    /\ NameOfChild \in DOMAIN def_map'.modules[ParentOfChild].scope
    /\ def_map'.modules[ParentOfChild].scope[NameOfChild].def.types
          = Some(ModuleOf(def_map.krate, NewChild))

\* the type namespace of n in the scope of P was filled before the step
NameTakenBefore ==
    IsSome(ScopeDef(def_map.modules[ParentOfChild].scope, NameOfChild).types)

\* C33 as stated: after a child module is created (inline, or file-backed on a
\* match) under name n in module P, the scope of P binds n in the type
\* namespace to the new child module, the children map of P maps n to the same
\* module, and the parent of the child is P.
C33_ChildBoundInParentScope ==
    [][(pc \notin {"session", "slots", "reparse"})
          => (CreatesChild => (ChildLinked /\ ChildBoundInScope))]_vars

\* C33: after a child module is created under name n in module P, the children
\* map of P maps n to the new module and the parent of the new module is P; the
\* scope of P binds n in the type namespace to the new module if that slot was
\* empty before, and keeps the definition the slot held otherwise.
C33_ChildBoundUnlessNameTaken ==
    [][(pc \notin {"session", "slots", "reparse"})
          => (CreatesChild =>
                 /\ ChildLinked
                 /\ IF NameTakenBefore
                    THEN def_map'.modules[ParentOfChild].scope[NameOfChild]
                            = def_map.modules[ParentOfChild].scope[NameOfChild]
                    ELSE ChildBoundInScope)]_vars

\* C33 witness: the pass finished on `struct m; mod m;` next to m.rs: the
\* second module of the arena is the child m of the root, defined by m.rs, and
\* the type namespace of m in the root's scope holds the struct.
C33_Witness ==
    /\ pc = "done"
    /\ Len(def_map.modules) = 2
    /\ def_map.modules[2].parent = Some(def_map.root)
    /\ IsSome(def_map.modules[2].definition)
    /\ def_map.modules[def_map.root].children = ("m" :> 2)
    /\ "m" \in DOMAIN def_map.modules[def_map.root].scope
    /\ IsSome(def_map.modules[def_map.root].scope["m"].def.types)
    /\ Unwrap(def_map.modules[def_map.root].scope["m"].def.types).kind = "Struct"

(***************************************************************************)
(* define_def                                                              *)
(***************************************************************************)
\* the step collects a direct item definition
DefinesItem ==
    /\ pc = "collect"
    /\ stack # <<>>
    /\ stack[Len(stack)].items # <<>>
    /\ Head(stack[Len(stack)].items).k = "Def"

DefinedItem == Head(stack[Len(stack)].items)

\* the definition the step made of the item: its kind and its interned id
DefinedAs ==
    ItemDef(DefinedItem.kind,
            Loc2Id(interner'[InternerField(DefinedItem.kind)],
                   ItemLoc(ModuleRef(def_map.krate, stack[Len(stack)].module_id),
                           SourceItemId(stack[Len(stack)].file_id, DefinedItem.sid))))

\* the kinds offered in the value namespace and in the type namespace
OfferedAsValue(kind) == kind \in {"Function", "Const", "Static", "Struct"}
OfferedAsType(kind) == kind \in {"Trait", "TypeAlias", "Enum", "Struct"}

\* the entry of the item's name in the scope of its module before and after
EntryBefore ==
    EntryOrDefault(def_map.modules[stack[Len(stack)].module_id].scope, DefinedItem.name)
EntryAfter == def_map'.modules[stack[Len(stack)].module_id].scope[DefinedItem.name]

\* a slot that was empty holds the item if its kind is offered in that
\* namespace and stays empty if not; a filled slot stays; an entry the item
\* filled a slot of has no import
ItemBoundAsOffered ==
    DefinesItem =>
       /\ DefinedItem.name \in DOMAIN def_map'.modules[stack[Len(stack)].module_id].scope
       /\ EntryAfter.def.values
             = IF IsSome(EntryBefore.def.values) THEN EntryBefore.def.values
               ELSE IF OfferedAsValue(DefinedItem.kind) THEN Some(DefinedAs) ELSE None
       /\ EntryAfter.def.types
             = IF IsSome(EntryBefore.def.types) THEN EntryBefore.def.types
               ELSE IF OfferedAsType(DefinedItem.kind) THEN Some(DefinedAs) ELSE None
       /\ EntryAfter.import
             = IF EntryAfter.def # EntryBefore.def THEN None ELSE EntryBefore.import

\* C34: a direct item definition is bound under its name with no import
\* provenance and with exactly these namespace slots offered: function, const
\* and static fill the value namespace only; trait, type alias and enum fill
\* the type namespace only; struct fills both namespaces with the same struct.
C34_DefinitionOffersNamespacesOfItsKind ==
    [][(pc \notin {"session", "slots", "reparse"}) => ItemBoundAsOffered]_vars

\* C34 witness: the pass finished on `const m: ..; type m = ..;`: the entry of
\* m in the root has the const in the value namespace, the type alias in the
\* type namespace, and no import.
C34_Witness ==
    /\ pc = "done"
    /\ Len(files[RootFile].items) = 2
    /\ "m" \in DOMAIN def_map.modules[def_map.root].scope
    /\ def_map.modules[def_map.root].scope["m"]
          = [def |-> [types |-> Some(ItemDef("TypeAlias", 1)),
                      values |-> Some(ItemDef("Const", 1))],
             import |-> None]

(***************************************************************************)
(* Bare-name invocations and the crate-global macro scope                  *)
(***************************************************************************)
\* the step collects a macro item
CollectsMacroItem ==
    /\ pc = "collect"
    /\ stack # <<>>
    /\ stack[Len(stack)].items # <<>>
    /\ Head(stack[Len(stack)].items).k = "Macro"

CollectedMacro == Head(stack[Len(stack)].items)

\* the step collects a macro_rules definition with a name whose rules parse
RegistersMacro ==
    /\ CollectsMacroItem
    /\ IsMacroRules(CollectedMacro.path)
    /\ IsSome(CollectedMacro.name)
    /\ IsSome(ParseRules(CollectedMacro.arg))

\* the step collects an invocation with a bare name
CollectsBareInvocation ==
    /\ CollectsMacroItem
    /\ ~IsMacroRules(CollectedMacro.path)
    /\ CollectedMacro.path.kind = "Plain"
    /\ Len(CollectedMacro.path.segments) = 1

BareName == CollectedMacro.path.segments[1]

\* the id the step interned the invocation under
CollectedCallId ==
    MacroCallIdOf(interner', ModuleRef(def_map.krate, stack[Len(stack)].module_id),
                  SourceItemId(stack[Len(stack)].file_id, CollectedMacro.sid))

\* a definition becomes the definition of its name, in place of an earlier one;
\* no other step changes the scope
LatestDefinitionRegistered ==
    IF RegistersMacro
    THEN /\ def_map'.macros = Append(def_map.macros, Unwrap(ParseRules(CollectedMacro.arg)))
         /\ col'.global_macro_scope
               = Insert(col.global_macro_scope, Unwrap(CollectedMacro.name),
                        Len(def_map.macros) + 1)
    ELSE col'.global_macro_scope = col.global_macro_scope

\* the queue is left alone and the invocation is expanded by the definition
\* the scope holds for its name: the resolution names it, and collection goes
\* on in the items of its expansion
ExpandedByRegistered ==
    LET macro_id == col.global_macro_scope[BareName]
        expansion == Expand(def_map.macros[macro_id], CollectedMacro.arg)
    IN /\ col'.unexpanded_macros = col.unexpanded_macros
       /\ IsSome(expansion) =>
             /\ CollectedCallId \in DOMAIN def_map'.macro_resolutions
             /\ def_map'.macro_resolutions[CollectedCallId]
                   = MacroDefId(def_map.krate, macro_id)
             /\ (Unwrap(expansion) # <<>> /\ pc' # "overflow") =>
                   /\ stack' # <<>>
                   /\ stack'[Len(stack')].file_id = MacroFile(CollectedCallId)
                   /\ stack'[Len(stack')].items = Unwrap(expansion)

\* the invocation is appended to the queue and nothing is expanded
QueuedUnexpanded ==
    /\ col'.unexpanded_macros
          = Append(col.unexpanded_macros,
                   [module_id |-> stack[Len(stack)].module_id, call_id |-> CollectedCallId,
                    path |-> CollectedMacro.path, arg |-> CollectedMacro.arg])
    /\ def_map' = def_map
    /\ \A j \in 1..Len(stack') : stack'[j].file_id # MacroFile(CollectedCallId)

ExpandedIffRegistered ==
    CollectsBareInvocation =>
       IF BareName \in DOMAIN col.global_macro_scope
       THEN ExpandedByRegistered
       ELSE QueuedUnexpanded

\* the bare-name invocations that were queued: those in the queue and those a
\* macro pass went through
QueuedBareCalls ==
    { col.unexpanded_macros[k].call_id : k \in
         { j \in 1..Len(col.unexpanded_macros) :
              Len(col.unexpanded_macros[j].path.segments) = 1 } }
    \cup
    { hist.examined[k].call_id : k \in
         { j \in 1..Len(hist.examined) : Len(hist.examined[j].path.segments) = 1 } }

\* a queued bare-name invocation has no resolution and no expansion
QueuedBareNeverExpanded ==
    (pc \notin {"session", "slots", "reparse"}) =>
       \A c \in QueuedBareCalls :
          /\ c \notin DOMAIN def_map.macro_resolutions
          /\ \A j \in 1..Len(stack) : stack[j].file_id # MacroFile(c)

\* C35: a bare-name macro invocation is expanded during collection iff a macro
\* of that name is registered in the crate-global scope at the moment the
\* invocation is collected, and then by the definition registered last under
\* that name; an invocation collected before any definition of its name is
\* queued instead, and a definition registered later does not expand it.
C35_BareInvocationExpandedIffRegistered ==
    /\ []QueuedBareNeverExpanded
    /\ [][(pc \notin {"session", "slots", "reparse"})
             => (LatestDefinitionRegistered /\ ExpandedIffRegistered)]_vars

\* C35 witness: the pass finished on `foo!(); macro_rules! foo { .. fn h .. }
\* foo!();`: the first invocation was queued and a macro pass went through it,
\* the second was expanded at collection by the definition, h is defined, and
\* only the second has a resolution.
C35_Witness ==
    /\ pc = "done"
    /\ Len(files[RootFile].items) = 3
    /\ Len(interner.macros) = 2
    /\ Len(def_map.macros) = 1
    /\ Len(hist.examined) = 1
    /\ hist.examined[1].call_id = 1
    /\ hist.examined[1].path = PathOf("Plain", <<"foo">>)
    /\ def_map.macro_resolutions = (2 :> MacroDefId(Krate, 1))
    /\ "h" \in DOMAIN def_map.modules[def_map.root].scope

(***************************************************************************)
(* The order of the slots                                                  *)
(***************************************************************************)
\* the place of node n in the left-to-right (document) order of the tree
PlaceOf(tree, n) ==
    CHOOSE i \in 1..Len(Preorder(tree, 1)) : Preorder(tree, 1)[i] = n

\* the slots are the indexed nodes, each once, and no other node
SlotsAreIndexedNodes(table, tree) ==
    /\ \A i \in 1..Len(table.arena) :
          /\ table.arena[i].node \in Allocated(tree)
          /\ table.arena[i].kind = tree.kind[table.arena[i].node]
          /\ \A j \in 1..Len(table.arena) :
                table.arena[j].node = table.arena[i].node => j = i
    /\ \A n \in Allocated(tree) : \E i \in 1..Len(table.arena) : table.arena[i].node = n
    /\ \A n \in Nodes(tree) :
          ~(IsModuleItem(tree.kind[n]) \/ IsMacroCall(tree.kind[n])) =>
             \A i \in 1..Len(table.arena) : table.arena[i].node # n

\* a shallower node has the lower slot, and of two nodes of one depth the one
\* further left has
SlotsBreadthFirst(table, tree) ==
    \A i \in 1..Len(table.arena) : \A j \in 1..Len(table.arena) :
       LET a == table.arena[i].node
           b == table.arena[j].node
       IN /\ Depth(tree, a) < Depth(tree, b) => i < j
          /\ (Depth(tree, a) = Depth(tree, b) /\ PlaceOf(tree, a) < PlaceOf(tree, b)) => i < j

\* C36: slot numbers follow the breadth-first order of the syntax tree: every
\* indexed node (module-level item or macro invocation) at depth d gets a lower
\* slot than every indexed node at a greater depth, indexed nodes of equal
\* depth are numbered from left to right, only module-level items and macro
\* invocations receive slots, and a second run on the same tree produces the
\* same table.
C36_SlotsInBreadthFirstOrder ==
    pc = "slots" =>
        \A f \in 1..Len(source_file) :
           /\ SlotsAreIndexedNodes(file_items[f], source_file[f])
           /\ SlotsBreadthFirst(file_items[f], source_file[f])
           /\ FromSourceFile(source_file[f], RealFile(f)) = file_items[f]

\* C36 witness: a file whose first item a holds an indexed node b and is
\* followed by an item c, and between a and c a node that is not indexed: c is
\* to the right of b and has the lower slot, a has the lowest, and the table
\* has these three slots.
C36_Witness ==
    /\ pc = "slots"
    /\ Len(file_items[1].arena) = 3
    /\ \E a \in Allocated(source_file[1]) : \E b \in Allocated(source_file[1]) :
          \E c \in Allocated(source_file[1]) :
             /\ ParentOf(source_file[1], b) = a
             /\ Depth(source_file[1], a) = 1
             /\ Depth(source_file[1], c) = 1
             /\ PlaceOf(source_file[1], a) < PlaceOf(source_file[1], b)
             /\ PlaceOf(source_file[1], b) < PlaceOf(source_file[1], c)
             /\ file_items[1].arena[1].node = a
             /\ file_items[1].arena[2].node = c
             /\ file_items[1].arena[3].node = b
    /\ \E n \in Nodes(source_file[1]) : n > 1 /\ ~IsAllocated(source_file[1], n)

(***************************************************************************)
(* Equality of diagnostics (ra_hir::diagnostics)                           *)
(*                                                                         *)
(* This specification reuses three of the variables:                       *)
(*   hist   the two diagnostics compared and the value returned, if any    *)
(*   stack  the call stack of the comparison, one frame per active call    *)
(*   pc     the function about to run: "diag" before the comparison,       *)
(*          "dyn_eq", "_dyn_eq", "downcast_ref" inside it, "returned"      *)
(*          once eq has returned, "overflow" once the stack is exhausted   *)
(***************************************************************************)
\* the implementors of Diagnostic: the concrete type behind a dyn Diagnostic
DiagnosticKinds == {"NoSuchField", "UnresolvedModule"}

\* a diagnostic: its concrete type and the payload file() and syntax_node() return
Diagnostic(kind, file, syntax_node) ==
    [kind |-> kind, file |-> file, syntax_node |-> syntax_node]

\* the diagnostics a comparison is given
AllDiagnostics ==
    {Diagnostic(k, f, n) : k \in DiagnosticKinds, f \in 1..2, n \in 1..2}

DiagInit ==
    /\ files = <<>>
    /\ deps = <<>>
    /\ def_map = EmptyDefMap
    /\ col = InitCollector
    /\ interner = EmptyInterner
    /\ stack = <<>>
    /\ pc = "diag"
    /\ loop = InitLoop
    /\ \E a \in AllDiagnostics, b \in AllDiagnostics :
            hist = [self |-> a, other |-> b, result |-> None]
    /\ source_file = <<>>
    /\ file_items = <<>>

\* a call of the comparison: a new frame holding the callee, its receiver and
\* its argument, or the end of the stack
DiagCall(fn, self, arg) ==
    /\ IF Len(stack) < StackLimit
       THEN /\ stack' = Append(stack, [fn |-> fn, self |-> self, arg |-> arg])
            /\ pc' = fn
       ELSE /\ stack' = stack
            /\ pc' = "overflow"
    /\ UNCHANGED <<files, deps, def_map, col, interner, loop, hist, syntax_vars>>

\* <dyn Diagnostic as PartialEq>::eq: self.dyn_eq(other)
Eq ==
    /\ pc = "diag"
    /\ DiagCall("dyn_eq", hist.self, hist.other)

\* dyn_eq of an implementor: self._dyn_eq(other)
DynEq ==
    /\ pc = "dyn_eq"
    /\ DiagCall("_dyn_eq", stack[Len(stack)].self, stack[Len(stack)].arg)

\* Diagnostic::_dyn_eq: the match evaluates other.downcast_ref::<Self>() first
\* (the frame's argument is the type asked for)
DynEqSized ==
    /\ pc = "_dyn_eq"
    /\ DiagCall("downcast_ref", stack[Len(stack)].arg, stack[Len(stack)].self.kind)

\* <dyn Diagnostic>::downcast_ref::<D>: its body is the call self.downcast_ref(),
\* which names this very function with the same receiver and the same D
DowncastRef ==
    /\ pc = "downcast_ref"
    /\ DiagCall("downcast_ref", stack[Len(stack)].self, stack[Len(stack)].arg)

DiagNext ==
    \/ Eq
    \/ DynEq
    \/ DynEqSized
    \/ DowncastRef

SpecDiag == DiagInit /\ [][DiagNext]_vars

\* structural equality of two diagnostics: same concrete type, equal payloads
StructurallyEqual(a, b) ==
    /\ a.kind = b.kind
    /\ a.file = b.file
    /\ a.syntax_node = b.syntax_node

\* C37: comparing two diagnostics always terminates (the comparison never
\* exhausts the call stack), and the value it returns is false when the two
\* are of different kinds and the structural equality of their payloads when
\* they are of the same kind.
C37_ComparisonReturnsStructuralEquality ==
    /\ pc # "overflow"
    /\ (pc = "returned" =>
            /\ IsSome(hist.result)
            /\ Unwrap(hist.result) = StructurallyEqual(hist.self, hist.other))

====
